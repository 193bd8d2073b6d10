----------------------------- MODULE UndoIntents -----------------------------
(***************************************************************************)
(* The browser's undo of one dataset: what a click means while answers are *)
(* lost, late or definitive, the page refreshes in the background, another *)
(* tab changes the dataset and the workspace is reset.                     *)
(*                                                                         *)
(* The server is what DatasetRevisions says of the undo route, seen from   *)
(* here: a key is applied once, and only to the revision it expects.       *)
(***************************************************************************)
EXTENDS Integers

CONSTANTS MaxIntents,     \* bound: idempotency keys the page creates
          LastRevision,   \* bound: revisions of the dataset
          MaxResets       \* bound: resets of the workspace

ASSUME UndoAssumption ==
  /\ MaxIntents \in Nat /\ LastRevision \in Nat \ {0} /\ MaxResets \in Nat

Intents == 1..MaxIntents

VARIABLES revision,     \* the dataset's version on the server
          undone,       \* the keys whose undo the server committed
          net,          \* requests on their way, by key
          shown,        \* the version the page shows, 0 without a dataset
          current,      \* intents.get(dataset.id), 0 without one
          generation,   \* resets so far
          intent        \* every intent the page created

undoVars == <<revision, undone, net, shown, current, generation, intent>>

\* run: what its pending promise waits for; "free" without one.  started: the
\* generation that run began in.  unaware: created although the page had not
\* been told what became of an earlier intent of the same workspace.
NoIntent == [run |-> "none", expected |-> 0, started |-> 0, receipt |-> FALSE,
             synchronized |-> FALSE, refused |-> FALSE, unaware |-> FALSE]

UndoTypeOK ==
  /\ revision \in 1..LastRevision /\ shown \in 0..LastRevision
  /\ undone \subseteq Intents /\ net \subseteq Intents
  /\ current \in Intents \union {0} /\ generation \in 0..MaxResets
  /\ intent \in [Intents ->
       [run : {"none", "free", "calling", "accepted", "denied", "refreshing"},
        expected : 0..LastRevision, started : 0..MaxResets, receipt : BOOLEAN,
        synchronized : BOOLEAN, refused : BOOLEAN, unaware : BOOLEAN]]

UndoInit ==
  /\ revision = 1 /\ undone = {} /\ net = {} /\ shown = 1
  /\ current = 0 /\ generation = 0
  /\ intent = [k \in Intents |-> NoIntent]

Created(k) == intent[k].run # "none"
Told(k) == intent[k].synchronized \/ intent[k].refused
Open(k) == Created(k) /\ intent[k].started = generation /\ ~Told(k)
ServerKept == UNCHANGED <<revision, undone>>

-----------------------------------------------------------------------------
(* A click on undo: run *)

\* Mutant: a page that shows another version always means another undo.
NeedsNewIfMoved == current # 0 => shown # intent[current].expected
NeedsNew ==
  current # 0 => intent[current].synchronized /\ shown # intent[current].expected

\* A new intention, with a key of its own and the version the page shows.
NewIntent ==
  [run |-> "calling", expected |-> shown, started |-> generation, receipt |-> FALSE,
   synchronized |-> FALSE, refused |-> FALSE, unaware |-> \E j \in Intents : Open(j)]
ClickAnew(k) ==
  /\ shown # 0 /\ NeedsNew
  /\ ~Created(k) /\ \A j \in 1..(k - 1) : Created(j)
  /\ current' = k /\ net' = net \union {k}
  /\ intent' = [intent EXCEPT ![k] = NewIntent]
  /\ ServerKept /\ UNCHANGED <<shown, generation>>

\* The same intention once more, unless it is pending or settled: the call, or
\* only the refresh.
ClickAgain ==
  /\ shown # 0 /\ ~NeedsNew
  /\ intent[current].run = "free" /\ ~intent[current].synchronized
  /\ intent' = [intent EXCEPT ![current] =
       [@ EXCEPT !.run = IF intent[current].receipt THEN "refreshing" ELSE "calling",
                 !.started = generation]]
  /\ net' = IF intent[current].receipt THEN net ELSE net \union {current}
  /\ ServerKept /\ UNCHANGED <<shown, current, generation>>

-----------------------------------------------------------------------------
(* The call and its answers *)

\* The server handles a request: a known key gets its receipt, a new one needs
\* the expected version and a revision to undo.  The answer may reach a call
\* that still waits, and may not; a copy that another try sent may follow.
Handle(k) ==
  /\ k \in net /\ net' \in {net, net \ {k}}
  /\ \E accepts \in BOOLEAN :
       /\ k \in undone => accepts
       /\ accepts /\ k \notin undone =>
            revision = intent[k].expected /\ revision < LastRevision
       /\ undone' = IF accepts THEN undone \union {k} ELSE undone
       /\ revision' = IF accepts /\ k \notin undone THEN revision + 1 ELSE revision
       /\ \E arrives \in BOOLEAN :
            intent' = IF arrives /\ intent[k].run = "calling"
                        THEN [intent EXCEPT ![k].run = IF accepts THEN "accepted" ELSE "denied"]
                        ELSE intent
  /\ UNCHANGED <<shown, current, generation>>

\* No answer, or a 5xx: undoDatasetTransformation tries again or gives up; what
\* it sent may still be on its way.
CallFails(k) ==
  /\ intent[k].run = "calling"
  /\ \/ net' = net \union {k} /\ UNCHANGED intent
     \/ net' \in {net, net \ {k}} /\ intent' = [intent EXCEPT ![k].run = "free"]
  /\ ServerKept /\ UNCHANGED <<shown, current, generation>>

\* The receipt is kept; after a reset nothing is refreshed for it.
Accepted(k) ==
  /\ intent[k].run = "accepted"
  /\ intent' = [intent EXCEPT ![k] =
       [@ EXCEPT !.receipt = TRUE,
                 !.run = IF intent[k].started = generation THEN "refreshing" ELSE "free"]]
  /\ ServerKept /\ UNCHANGED <<net, shown, current, generation>>

\* Mutant: the refusal takes away whatever intent the dataset has by now.
IsCurrentOrNot(k) == TRUE
IsCurrent(k) == current = k
\* A definitive refusal permits a new intention.
Denied(k) ==
  /\ intent[k].run = "denied"
  /\ intent' = [intent EXCEPT ![k] = [@ EXCEPT !.run = "free", !.refused = TRUE]]
  /\ current' = IF IsCurrent(k) THEN 0 ELSE current
  /\ ServerKept /\ UNCHANGED <<net, shown, generation>>

\* synchronize: the dataset and the history are read again, or one fails.
Synchronize(k) ==
  /\ intent[k].run = "refreshing"
  /\ \E complete \in BOOLEAN :
       /\ intent' = [intent EXCEPT ![k] = [@ EXCEPT !.run = "free", !.synchronized = complete]]
       /\ IF shown = 0 THEN UNCHANGED shown
          ELSE IF complete THEN shown' = revision ELSE shown' \in {shown, revision}
  /\ ServerKept /\ UNCHANGED <<net, current, generation>>

-----------------------------------------------------------------------------
(* Around the clicks *)

\* The dataset is read again for another reason, or is opened again.
Refresh ==
  /\ shown' = revision
  /\ ServerKept /\ UNCHANGED <<net, current, generation, intent>>

\* A transformation, or an undo from another tab.
OtherChange ==
  /\ revision < LastRevision
  /\ revision' = revision + 1
  /\ UNCHANGED <<undone, net, shown, current, generation, intent>>

\* An upload, the sample, a disconnect or an expired session.
Reset ==
  /\ generation < MaxResets
  /\ generation' = generation + 1
  /\ current' = 0
  /\ shown' \in {shown, 0}
  /\ ServerKept /\ UNCHANGED <<net, intent>>

UndoNext ==
  \/ \E k \in Intents :
       ClickAnew(k) \/ Handle(k) \/ CallFails(k) \/ Accepted(k) \/ Denied(k) \/ Synchronize(k)
  \/ ClickAgain \/ Refresh \/ OtherChange \/ Reset

UndoSpec == UndoInit /\ [][UndoNext]_undoVars

-----------------------------------------------------------------------------
\* Within a workspace an undo that the server commits was asked for by someone
\* who knew what became of the one before: clicks during a call, after a lost
\* answer or a failed refresh, and on a stale or newer page repeat the first
\* intention and never undo another revision (undo-intent.ts run).
UndoneOnce ==
  /\ \A k \in undone : ~intent[k].unaware
  /\ \A j, k \in undone : j # k => intent[j].expected # intent[k].expected

=============================================================================
