--------------------------- MODULE DatasetHistory ---------------------------
(***************************************************************************)
(* What a dataset promises to its clients: one linear history of           *)
(* revisions.  Every committed change appends one receipt and raises the   *)
(* revision by one; a transformation installs content never seen before;   *)
(* an undo returns to the input of the transformation that produced the    *)
(* present content; an idempotency key changes the dataset at most once.   *)
(***************************************************************************)
EXTENDS Naturals, Sequences

CONSTANTS Contents,   \* file contents (paths)
          Original,   \* the uploaded content
          Keys,       \* idempotency keys
          NoKey       \* an undo sent without one

VARIABLES head,       \* content of the active revision
          version,    \* its number
          log         \* committed receipts

histVars == <<head, version, log>>

Receipt == [kind : {"transformation", "undo"}, key : Keys \union {NoKey},
            input : Contents, output : Contents]

Produced(c) == \E i \in DOMAIN log : log[i].kind = "transformation" /\ log[i].output = c
Used(kind, k) == \E i \in DOMAIN log : log[i].kind = kind /\ log[i].key = k

HistInit ==
  /\ head = Original
  /\ version = 1
  /\ log = <<>>

Advance(kind, k, c) ==
  /\ k # NoKey => ~ Used(kind, k)
  /\ log' = Append(log, [kind |-> kind, key |-> k, input |-> head, output |-> c])
  /\ head' = c
  /\ version' = version + 1

Transform(k, c) ==
  /\ c # Original /\ ~ Produced(c)
  /\ Advance("transformation", k, c)

Undo(k) ==
  \E i \in DOMAIN log :
    /\ log[i].kind = "transformation" /\ log[i].output = head
    /\ Advance("undo", k, log[i].input)

HistNext ==
  \/ \E k \in Keys, c \in Contents : Transform(k, c)
  \/ \E k \in Keys \union {NoKey} : Undo(k)

HistSpec == HistInit /\ [][HistNext]_histVars

=============================================================================
