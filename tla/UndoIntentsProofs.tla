-------------------------- MODULE UndoIntentsProofs --------------------------
(***************************************************************************)
(* Whatever happens to the answers, the page never asks for another undo   *)
(* before it knows what became of the last one, for every number of        *)
(* intents, revisions and resets.                                          *)
(*                                                                         *)
(* An intent of this workspace that the page was told nothing about is the *)
(* current one, so a new one follows only a settled one; and a committed   *)
(* undo lies behind the server's revision, so no key of the same revision  *)
(* is applied after it.                                                    *)
(***************************************************************************)
EXTENDS UndoIntents, TLAPS

UntoldIsCurrent == \A j \in Intents : Open(j) => j = current
\* Runs belong to generations that have begun.
StartedBefore == \A j \in Intents : intent[j].started <= generation
\* An intent that still runs was not synchronized.
Underway(j) == intent[j].run \in {"calling", "accepted", "denied", "refreshing"}
RunsUnsettled == \A j \in Intents : Underway(j) => ~intent[j].synchronized
Aware == \A j \in Intents : ~intent[j].unaware
OnlyCreated == (current # 0 => Created(current)) /\ \A k \in net : Created(k)
UndoneBehind == \A k \in undone : Created(k) /\ intent[k].expected < revision
OneEach == \A j, k \in undone : j # k => intent[j].expected # intent[k].expected

PageInv == UntoldIsCurrent /\ StartedBefore /\ RunsUnsettled /\ Aware /\ OnlyCreated
ServerInv == UndoneBehind /\ OneEach
UndoInv == UndoTypeOK /\ PageInv /\ ServerInv

-----------------------------------------------------------------------------
LEMMA UndoInvInit == UndoInit => UndoInv
BY UndoAssumption
DEF UndoInit, UndoInv, UndoTypeOK, PageInv, ServerInv, UntoldIsCurrent, StartedBefore,
    RunsUnsettled, Underway, Aware, UndoneBehind, OnlyCreated, OneEach, Open, Created, Told,
    NoIntent, Intents

IntentType ==
  [run : {"none", "free", "calling", "accepted", "denied", "refreshing"},
   expected : 0..LastRevision, started : 0..MaxResets, receipt : BOOLEAN,
   synchronized : BOOLEAN, refused : BOOLEAN, unaware : BOOLEAN]

\* Moving a run on keeps the types of its intent.
Runs == {"free", "calling", "accepted", "denied", "refreshing"}

LEMMA RunTyped ==
  ASSUME UndoTypeOK, NEW k \in Intents
  PROVE  /\ \A r \in Runs : [intent EXCEPT ![k].run = r] \in [Intents -> IntentType]
         /\ \A r \in Runs, g \in 0..MaxResets :
              [intent EXCEPT ![k] = [@ EXCEPT !.run = r, !.started = g]]
                \in [Intents -> IntentType]
         /\ \A r \in Runs, b \in BOOLEAN :
              /\ [intent EXCEPT ![k] = [@ EXCEPT !.run = r, !.synchronized = b]]
                   \in [Intents -> IntentType]
              /\ [intent EXCEPT ![k] = [@ EXCEPT !.run = r, !.refused = b]]
                   \in [Intents -> IntentType]
              /\ [intent EXCEPT ![k] = [@ EXCEPT !.receipt = b, !.run = r]]
                   \in [Intents -> IntentType]
<1>1. intent \in [Intents -> IntentType] BY DEF UndoTypeOK, IntentType
<1>2. ASSUME NEW i \in IntentType, NEW r \in Runs, NEW b \in BOOLEAN, NEW g \in 0..MaxResets
      PROVE  /\ [i EXCEPT !.run = r] \in IntentType
             /\ [i EXCEPT !.run = r, !.started = g] \in IntentType
             /\ [i EXCEPT !.run = r, !.synchronized = b] \in IntentType
             /\ [i EXCEPT !.run = r, !.refused = b] \in IntentType
             /\ [i EXCEPT !.receipt = b, !.run = r] \in IntentType
  BY DEF IntentType, Runs
<1>3. intent[k] \in IntentType /\ 0 \in 0..MaxResets BY <1>1, UndoAssumption
<1>4. ASSUME NEW i \in IntentType PROVE [intent EXCEPT ![k] = i] \in [Intents -> IntentType]
  BY <1>1
<1>5. ASSUME NEW r \in Runs
      PROVE  [intent EXCEPT ![k].run = r] \in [Intents -> IntentType]
  <2>1. [intent[k] EXCEPT !.run = r] \in IntentType BY <1>2, <1>3
  <2> QED BY <1>1, <2>1
<1>6. ASSUME NEW r \in Runs, NEW g \in 0..MaxResets
      PROVE  [intent EXCEPT ![k] = [@ EXCEPT !.run = r, !.started = g]]
               \in [Intents -> IntentType]
  BY <1>2, <1>3, <1>4
<1>7. ASSUME NEW r \in Runs, NEW b \in BOOLEAN
      PROVE  /\ [intent EXCEPT ![k] = [@ EXCEPT !.run = r, !.synchronized = b]]
                  \in [Intents -> IntentType]
             /\ [intent EXCEPT ![k] = [@ EXCEPT !.run = r, !.refused = b]]
                  \in [Intents -> IntentType]
             /\ [intent EXCEPT ![k] = [@ EXCEPT !.receipt = b, !.run = r]]
                  \in [Intents -> IntentType]
  BY <1>2, <1>3, <1>4
<1> QED BY <1>5, <1>6, <1>7

\* Types, one variable group at a time.
ReadsCounted ==
  /\ revision \in 1..LastRevision /\ shown \in 0..LastRevision
  /\ undone \subseteq Intents /\ net \subseteq Intents
  /\ current \in Intents \union {0} /\ generation \in 0..MaxResets

LEMMA UndoTypesStep ==
  ASSUME UndoTypeOK, UndoNext PROVE UndoTypeOK'
<1>1. ReadsCounted /\ intent \in [Intents -> IntentType] BY DEF UndoTypeOK, ReadsCounted, IntentType
<1>2. ReadsCounted' /\ intent' \in [Intents -> IntentType] => UndoTypeOK'
  BY DEF UndoTypeOK, ReadsCounted, IntentType
<1> USE UndoAssumption DEF ReadsCounted, Intents, ServerKept
<1>3. ReadsCounted'
  <2> USE <1>1
  <2>1. ASSUME NEW k \in Intents, ClickAnew(k) PROVE ReadsCounted' BY <2>1 DEF ClickAnew
  <2>2. ASSUME NEW k \in Intents, Handle(k) PROVE ReadsCounted' BY <2>2 DEF Handle
  <2>3. ASSUME NEW k \in Intents, CallFails(k) PROVE ReadsCounted' BY <2>3 DEF CallFails
  <2>4. ASSUME NEW k \in Intents, Accepted(k) PROVE ReadsCounted' BY <2>4 DEF Accepted
  <2>5. ASSUME NEW k \in Intents, Denied(k) PROVE ReadsCounted' BY <2>5 DEF Denied
  <2>6. ASSUME NEW k \in Intents, Synchronize(k) PROVE ReadsCounted' BY <2>6 DEF Synchronize
  <2>7. CASE ClickAgain BY <2>7 DEF ClickAgain, NeedsNew
  <2>8. CASE Refresh BY <2>8 DEF Refresh
  <2>9. CASE OtherChange BY <2>9 DEF OtherChange
  <2>10. CASE Reset BY <2>10 DEF Reset
  <2> QED BY <2>1, <2>2, <2>3, <2>4, <2>5, <2>6, <2>7, <2>8, <2>9, <2>10 DEF UndoNext
<1>4. intent' \in [Intents -> IntentType]
  <2>1. ASSUME NEW k \in Intents, ClickAnew(k) PROVE intent' \in [Intents -> IntentType]
    <3>1. NewIntent \in IntentType BY <1>1 DEF NewIntent, IntentType
    <3> QED BY <1>1, <2>1, <3>1 DEF ClickAnew
  <2>2. CASE ClickAgain
    <3>1. current \in Intents BY <1>1, <2>2 DEF ClickAgain, NeedsNew
    <3>2. PICK r \in Runs :
            intent' = [intent EXCEPT ![current] = [@ EXCEPT !.run = r, !.started = generation]]
      BY <2>2 DEF ClickAgain, Runs
    <3>3. [intent EXCEPT ![current] = [@ EXCEPT !.run = r, !.started = generation]]
            \in [Intents -> IntentType]
      BY <1>1, <3>1, RunTyped
    <3> QED BY <3>2, <3>3
  <2>3. ASSUME NEW k \in Intents, Handle(k) \/ CallFails(k)
        PROVE  intent' \in [Intents -> IntentType]
    <3>1. intent' = intent \/ \E r \in Runs :
                                intent' = [intent EXCEPT ![k].run = r]
      BY <2>3 DEF Handle, CallFails, Runs
    <3>2. \A r \in Runs :
            [intent EXCEPT ![k].run = r] \in [Intents -> IntentType]
      BY RunTyped
    <3> QED BY <1>1, <3>1, <3>2
  <2>4. ASSUME NEW k \in Intents, Accepted(k) PROVE intent' \in [Intents -> IntentType]
    <3>1. PICK r \in Runs :
            intent' = [intent EXCEPT ![k] = [@ EXCEPT !.receipt = TRUE, !.run = r]]
      BY <2>4 DEF Accepted, Runs
    <3>2. [intent EXCEPT ![k] = [@ EXCEPT !.receipt = TRUE, !.run = r]] \in [Intents -> IntentType]
      BY RunTyped
    <3> QED BY <3>1, <3>2
  <2>5. ASSUME NEW k \in Intents, Denied(k) PROVE intent' \in [Intents -> IntentType]
    BY <1>1, <2>5, RunTyped DEF Denied, Runs
  <2>6. ASSUME NEW k \in Intents, Synchronize(k) PROVE intent' \in [Intents -> IntentType]
    <3>1. PICK b \in BOOLEAN :
            intent' = [intent EXCEPT ![k] = [@ EXCEPT !.run = "free", !.synchronized = b]]
      BY <2>6 DEF Synchronize
    <3>2. [intent EXCEPT ![k] = [@ EXCEPT !.run = "free", !.synchronized = b]]
            \in [Intents -> IntentType]
      BY RunTyped DEF Runs
    <3> QED BY <3>1, <3>2
  <2>7. CASE Refresh \/ OtherChange \/ Reset
    BY <1>1, <2>7 DEF Refresh, OtherChange, Reset
  <2> QED BY <2>1, <2>2, <2>3, <2>4, <2>5, <2>6, <2>7 DEF UndoNext
<1> QED BY <1>2, <1>3, <1>4

\* A new intention follows only a settled one.
LEMMA ClickAnewKeeps ==
  ASSUME UndoInv, NEW k \in Intents, ClickAnew(k) PROVE PageInv' /\ ServerInv'
<1> USE UndoAssumption DEF UndoInv, PageInv, ServerInv, UndoTypeOK, Intents
<1>1. \A j \in Intents : ~Open(j)
  BY DEF ClickAnew, NeedsNew, UntoldIsCurrent, Open, Told
<1>2. /\ intent' = [intent EXCEPT ![k] = NewIntent]
      /\ current' = k /\ net' = net \union {k}
      /\ UNCHANGED <<revision, undone, shown, generation>>
  BY DEF ClickAnew, ServerKept
<1>3. /\ NewIntent.run = "calling" /\ NewIntent.started = generation
      /\ NewIntent.unaware = FALSE /\ NewIntent.synchronized = FALSE
  BY <1>1 DEF NewIntent
<1>4. \A j \in Intents : intent'[j] = IF j = k THEN NewIntent ELSE intent[j]
  BY <1>2
<1>5. k \notin undone BY DEF ClickAnew, UndoneBehind
<1>6. UntoldIsCurrent' BY <1>1, <1>2, <1>4 DEF UntoldIsCurrent, Open, Told, Created
<1>7. StartedBefore' BY <1>2, <1>3, <1>4 DEF StartedBefore
<1>8. RunsUnsettled' BY <1>3, <1>4 DEF RunsUnsettled, Underway
<1>9. Aware' BY <1>3, <1>4 DEF Aware
<1>10. OnlyCreated' BY <1>2, <1>3, <1>4 DEF OnlyCreated, Created
<1>11. UndoneBehind' BY <1>2, <1>4, <1>5 DEF UndoneBehind, Created
<1>12. OneEach' BY <1>2, <1>4, <1>5 DEF OneEach
<1> QED BY <1>6, <1>7, <1>8, <1>9, <1>10, <1>11, <1>12

\* The fields that a step of a run leaves alone keep what was committed.
LEMMA ServerInvKept ==
  ASSUME UndoInv, revision' \in Int, revision <= revision', UNCHANGED undone,
         \A j \in Intents : intent'[j].expected = intent[j].expected,
         \A j \in Intents : Created(j) => Created(j)'
  PROVE  ServerInv'
<1> USE DEF UndoInv, UndoTypeOK, ServerInv, Intents
<1>1. undone' \subseteq Intents OBVIOUS
<1>2. UndoneBehind'
  <2> SUFFICES ASSUME NEW k \in undone PROVE Created(k)' /\ intent'[k].expected < revision'
    BY DEF UndoneBehind
  <2>1. Created(k) /\ intent[k].expected < revision BY DEF UndoneBehind
  <2>2. intent'[k].expected = intent[k].expected /\ intent[k].expected \in 0..LastRevision
    OBVIOUS
  <2>3. intent'[k].expected < revision'
    BY <2>1, <2>2, UndoAssumption
  <2> QED BY <2>1, <2>3
<1>3. \A j \in undone : intent'[j].expected = intent[j].expected OBVIOUS
<1>4. OneEach'
  <2> SUFFICES ASSUME NEW j \in undone, NEW k \in undone, j # k
               PROVE  intent'[j].expected # intent'[k].expected
    BY DEF OneEach
  <2>1. intent[j].expected # intent[k].expected BY DEF OneEach
  <2> QED BY <1>3, <2>1
<1> QED BY <1>2, <1>4

\* The same intention once more.
LEMMA ClickAgainKeeps ==
  ASSUME UndoInv, ClickAgain PROVE PageInv' /\ ServerInv'
<1> USE UndoAssumption DEF UndoInv, UndoTypeOK, Intents
<1>1. current \in Intents BY DEF ClickAgain, NeedsNew
<1> DEFINE begun == IF intent[current].receipt THEN "refreshing" ELSE "calling"
<1>2. /\ intent' = [intent EXCEPT ![current] =
           [@ EXCEPT !.run = begun, !.started = generation]]
      /\ net' \subseteq net \union {current} /\ ~intent[current].synchronized
      /\ UNCHANGED <<revision, undone, shown, current, generation>>
  BY DEF ClickAgain, ServerKept
<1>3. \A j \in Intents :
        /\ intent'[j].run = IF j = current THEN begun ELSE intent[j].run
        /\ intent'[j].started = IF j = current THEN generation ELSE intent[j].started
        /\ intent'[j].synchronized = intent[j].synchronized
        /\ intent'[j].refused = intent[j].refused
        /\ intent'[j].unaware = intent[j].unaware
        /\ intent'[j].expected = intent[j].expected
  BY <1>1, <1>2
<1> HIDE DEF begun
<1>4. begun # "none" BY DEF begun
<1>5. \A j \in Intents : Created(j) => Created(j)' BY <1>3, <1>4 DEF Created
<1>6. UntoldIsCurrent' BY <1>2, <1>3 DEF PageInv, UntoldIsCurrent, Open, Told, Created
<1>7. StartedBefore' BY <1>2, <1>3 DEF PageInv, StartedBefore
<1>8. RunsUnsettled' BY <1>2, <1>3 DEF PageInv, RunsUnsettled, Underway
<1>9. Aware' BY <1>3 DEF PageInv, Aware
<1>10. OnlyCreated' BY <1>1, <1>2, <1>3, <1>4 DEF PageInv, OnlyCreated, Created
<1>11. ServerInv' BY <1>2, <1>3, <1>5, ServerInvKept
<1> QED BY <1>6, <1>7, <1>8, <1>9, <1>10, <1>11 DEF PageInv

\* A step of a run that only moves it on: it starts nothing and settles no more
\* than it says.
LEMMA RunMovesOn ==
  ASSUME UndoInv, NEW k \in Intents, Created(k),
         current' \in {current, 0}, UNCHANGED generation,
         net' \subseteq net \union {k},
         \A j \in Intents :
           /\ Created(j) <=> Created(j)'
           /\ intent'[j].started = intent[j].started
           /\ intent'[j].unaware = intent[j].unaware
           /\ intent[j].synchronized => intent'[j].synchronized
           /\ intent[j].refused => intent'[j].refused
           /\ Underway(j)' => ~intent'[j].synchronized,
         current' # current => Told(k)' /\ current = k
  PROVE  PageInv'
<1> USE DEF UndoInv, UndoTypeOK, Intents, PageInv
<1>1. UntoldIsCurrent'
  <2> SUFFICES ASSUME NEW j \in Intents, Open(j)' PROVE j = current'
    BY DEF UntoldIsCurrent
  <2>1. Open(j) BY DEF Open, Told
  <2>2. j = current BY <2>1 DEF UntoldIsCurrent
  <2>3. current' # current => ~Open(k)' BY DEF Open
  <2> QED BY <2>2, <2>3
<1>2. StartedBefore' BY DEF StartedBefore
<1>3. RunsUnsettled' BY DEF RunsUnsettled
<1>4. Aware' BY DEF Aware
<1>5. OnlyCreated' BY DEF OnlyCreated
<1> QED BY <1>1, <1>2, <1>3, <1>4, <1>5

\* The server handles a request: what it commits lies behind its new revision.
LEMMA HandleKeeps ==
  ASSUME UndoInv, NEW k \in Intents, Handle(k) PROVE PageInv' /\ ServerInv'
<1> USE UndoAssumption DEF UndoInv, UndoTypeOK, Intents
<1>1. /\ k \in net /\ net' \subseteq net /\ UNCHANGED <<shown, current, generation>>
      /\ \/ intent' = intent
         \/ /\ intent[k].run = "calling"
            /\ \/ intent' = [intent EXCEPT ![k].run = "accepted"]
               \/ intent' = [intent EXCEPT ![k].run = "denied"]
  BY DEF Handle
<1>2. Created(k) BY <1>1 DEF PageInv, OnlyCreated
<1>3. \A j \in Intents :
        /\ Created(j) <=> Created(j)'
        /\ intent'[j].expected = intent[j].expected
        /\ intent'[j].started = intent[j].started
        /\ intent'[j].unaware = intent[j].unaware
        /\ intent'[j].synchronized = intent[j].synchronized
        /\ intent'[j].refused = intent[j].refused
        /\ Underway(j)' => Underway(j)
  <2>1. ASSUME NEW r \in {"accepted", "denied"}, NEW j \in Intents,
               intent[k].run = "calling", intent' = [intent EXCEPT ![k].run = r]
        PROVE  /\ intent'[j].run = IF j = k THEN r ELSE intent[j].run
               /\ intent'[j].expected = intent[j].expected
               /\ intent'[j].started = intent[j].started
               /\ intent'[j].unaware = intent[j].unaware
               /\ intent'[j].synchronized = intent[j].synchronized
               /\ intent'[j].refused = intent[j].refused
    BY <2>1
  <2> QED BY <1>1, <2>1 DEF Created, Underway
<1>4. PageInv'
  <2>1. \A j \in Intents : Underway(j)' => ~intent'[j].synchronized
    BY <1>3 DEF PageInv, RunsUnsettled
  <2> QED BY <1>1, <1>2, <1>3, <2>1, RunMovesOn
<1>5. CASE UNCHANGED undone
  <2>1. revision' \in Int /\ revision <= revision' BY DEF Handle
  <2> QED BY <1>3, <1>4, <1>5, <2>1, ServerInvKept
<1>6. CASE undone' # undone
  <2>1. /\ undone' = undone \union {k} /\ k \notin undone
        /\ intent[k].expected = revision /\ revision' = revision + 1
    BY <1>6 DEF Handle
  <2>2. UndoneBehind'
    <3>1. ASSUME NEW j \in undone'
          PROVE  Created(j) /\ intent[j].expected < revision + 1
      BY <1>2, <2>1, <3>1 DEF ServerInv, UndoneBehind
    <3> QED BY <1>3, <2>1, <3>1 DEF UndoneBehind
  <2>3. OneEach' BY <1>3, <2>1 DEF ServerInv, OneEach, UndoneBehind
  <2> QED BY <1>4, <2>2, <2>3 DEF ServerInv
<1> QED BY <1>5, <1>6

\* The steps of the page's run after a call.
LEMMA RunKeeps ==
  ASSUME UndoInv, NEW k \in Intents,
         CallFails(k) \/ Accepted(k) \/ Denied(k) \/ Synchronize(k)
  PROVE  PageInv' /\ ServerInv'
<1> USE UndoAssumption DEF UndoInv, UndoTypeOK, Intents
<1>1. /\ Created(k) /\ UNCHANGED <<revision, undone, generation>>
      /\ net' \subseteq net \union {k}
  BY DEF CallFails, Accepted, Denied, Synchronize, ServerKept, Created
<1>2. \A j \in Intents : j # k => intent'[j] = intent[j]
  BY DEF CallFails, Accepted, Denied, Synchronize
<1>3. ~intent[k].synchronized
  BY DEF PageInv, RunsUnsettled, Underway, CallFails, Accepted, Denied, Synchronize
<1> DEFINE Kept == /\ intent'[k].run # "none"
                   /\ intent'[k].expected = intent[k].expected
                   /\ intent'[k].started = intent[k].started
                   /\ intent'[k].unaware = intent[k].unaware
                   /\ intent[k].refused => intent'[k].refused
<1>4. Kept
  <2>1. CASE CallFails(k) BY <2>1 DEF CallFails
  <2>2. CASE Accepted(k) BY <2>2 DEF Accepted
  <2>3. CASE Denied(k) BY <2>3 DEF Denied
  <2>4. CASE Synchronize(k)
    <3>1. PICK c \in BOOLEAN :
            intent' = [intent EXCEPT ![k] = [@ EXCEPT !.run = "free", !.synchronized = c]]
      BY <2>4 DEF Synchronize
    <3>2. intent'[k] = [intent[k] EXCEPT !.run = "free", !.synchronized = c] BY <3>1
    <3> QED BY <3>2
  <2> QED BY <2>1, <2>2, <2>3, <2>4
<1>5. /\ \A j \in Intents : Created(j) <=> Created(j)'
      /\ ServerInv'
  <2>1. revision' \in Int /\ revision <= revision' BY <1>1
  <2>2. \A j \in Intents : Created(j) <=> Created(j)' BY <1>1, <1>2, <1>4 DEF Created
  <2>3. \A j \in Intents : intent'[j].expected = intent[j].expected BY <1>2, <1>4
  <2> QED BY <1>1, <2>1, <2>2, <2>3, ServerInvKept
<1>6. \A j \in Intents : j # k /\ Underway(j) => ~intent[j].synchronized
  BY DEF PageInv, RunsUnsettled
<1>7. ASSUME Underway(k)' => ~intent'[k].synchronized,
             current' \in {current, 0}, current' # current => Told(k)' /\ current = k
      PROVE  PageInv'
  BY <1>1, <1>2, <1>3, <1>4, <1>5, <1>6, <1>7, RunMovesOn DEF Underway
<1>8. CASE CallFails(k) \/ Denied(k)
  <2>1. /\ intent'[k].synchronized = intent[k].synchronized
        /\ current' \in {current, 0}
        /\ current' # current => Told(k)' /\ current = k
    BY <1>8 DEF CallFails, Denied, IsCurrent, Told
  <2> QED BY <1>3, <1>5, <1>7, <2>1
<1>9. CASE Accepted(k)
  <2>1. /\ intent'[k].synchronized = FALSE /\ ~intent[k].synchronized /\ UNCHANGED current
    BY <1>3, <1>9 DEF Accepted
  <2> QED BY <1>5, <1>7, <2>1
<1>10. CASE Synchronize(k)
  <2>1. /\ ~intent[k].synchronized /\ intent'[k].run = "free" /\ UNCHANGED current
    BY <1>3, <1>10 DEF Synchronize
  <2> QED BY <1>5, <1>7, <2>1 DEF Underway
<1> QED BY <1>8, <1>9, <1>10

\* Around the clicks: a reset leaves no intent of its own workspace open.
LEMMA AroundKeeps ==
  ASSUME UndoInv, Refresh \/ OtherChange \/ Reset \/ UNCHANGED undoVars
  PROVE  PageInv' /\ ServerInv'
<1> USE UndoAssumption DEF UndoInv, UndoTypeOK, Intents
<1>1. /\ UNCHANGED <<intent, undone, net>> /\ revision' \in Int /\ revision <= revision'
      /\ \/ UNCHANGED <<current, generation>>
         \/ current' = 0 /\ generation' = generation + 1
  BY DEF Refresh, OtherChange, Reset, ServerKept, undoVars
<1>2. ServerInv' BY <1>1, ServerInvKept DEF Created
<1>3. CASE UNCHANGED <<current, generation>>
  BY <1>1, <1>2, <1>3
  DEF PageInv, UntoldIsCurrent, StartedBefore, RunsUnsettled, Underway, Aware, OnlyCreated,
      Open, Told, Created
<1>4. CASE current' = 0 /\ generation' = generation + 1
  <2>1. \A j \in Intents : ~Open(j)' BY <1>1, <1>4 DEF PageInv, StartedBefore, Open
  <2> QED
    BY <1>1, <1>2, <1>4, <2>1
    DEF PageInv, UntoldIsCurrent, StartedBefore, RunsUnsettled, Underway, Aware, OnlyCreated,
        Created
<1> QED BY <1>1, <1>3, <1>4

LEMMA UndoInvStep == UndoInv /\ [UndoNext]_undoVars => UndoInv'
<1> SUFFICES ASSUME UndoInv, [UndoNext]_undoVars PROVE UndoInv'
  OBVIOUS
<1>1. UndoTypeOK'
  <2>1. CASE UndoNext BY <2>1, UndoTypesStep DEF UndoInv
  <2>2. CASE UNCHANGED undoVars BY <2>2 DEF undoVars, UndoInv, UndoTypeOK
  <2> QED BY <2>1, <2>2
<1>2. PageInv' /\ ServerInv'
  BY ClickAnewKeeps, ClickAgainKeeps, HandleKeeps, RunKeeps, AroundKeeps DEF UndoNext
<1> QED BY <1>1, <1>2 DEF UndoInv

THEOREM UndoInductive == UndoSpec => []UndoInv
BY UndoInvInit, UndoInvStep, PTL DEF UndoSpec

\* UndoTypeOK, the types of the server's revision and the page's intents.
THEOREM UndoTyped == UndoSpec => []UndoTypeOK
<1>1. UndoInv => UndoTypeOK BY DEF UndoInv
<1> QED BY <1>1, UndoInductive, PTL

LEMMA UndoInvOnce == UndoInv => UndoneOnce
BY DEF UndoInv, UndoTypeOK, PageInv, ServerInv, Aware, OneEach, UndoneOnce

\* UndoneOnce: no undo is committed that was asked for before the page knew
\* what became of the one before, and no revision is undone twice
\* (undo-intent.ts run), however many intents, revisions and resets there are.
THEOREM UndoIsOnce == UndoSpec => []UndoneOnce
BY UndoInvOnce, UndoInductive, PTL

=============================================================================
