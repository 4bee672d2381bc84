--------------------------- MODULE LookupContract ---------------------------
(***************************************************************************)
(* What the lookup promises its clients, without caches, flights, provider *)
(* chain or instances.  A client asks about a BIN and is answered once;    *)
(* several who asked about the same BIN may be answered by the same step.  *)
(* Data is a record that has been stored, of the BIN or of its prefix;     *)
(* "not found" is said of a BIN that no source had; a failure carries no   *)
(* data.  Clients come back, or lose their server, at any time.            *)
(***************************************************************************)
CONSTANTS
    Slots,      \* the requests under way at the same time
    Bins,       \* what may be asked about
    PrefixOf,   \* the BIN whose record answers for a BIN without one
    Record,     \* the records there can be: each has the BIN it is of
    None        \* no question, no record

VARIABLES
    asked,     \* asked[r]: the BIN that r asks about, or None
    answer,    \* answer[r]: the reply r has been given, or NoAnswer
    known,     \* every record that has been stored
    unlisted   \* the BINs that were found in no source

vars == <<asked, answer, known, unlisted>>

NoAnswer == [status |-> 0, rec |-> None]
Replies == [status : {200, 404, 429, 500, 503}, rec : Record \cup {None}]

Justified(b, reply) ==
    \/ /\ reply.status = 200
       /\ reply.rec \in known
       /\ reply.rec.bin \in {b, PrefixOf[b]}
    \/ /\ reply.status = 404
       /\ reply.rec = None
       /\ b \in unlisted
    \/ /\ reply.status \notin {200, 404}
       /\ reply.rec = None

Init ==
    /\ asked = [r \in Slots |-> None]
    /\ answer = [r \in Slots |-> NoAnswer]
    /\ known = {}
    /\ unlisted = {}

Ask(r, b) ==
    /\ asked[r] = None
    /\ asked' = [asked EXCEPT ![r] = b]
    /\ UNCHANGED <<answer, known, unlisted>>

Reply(rs, b) ==
    /\ \A r \in rs : asked[r] = b /\ answer[r] = NoAnswer
    /\ UNCHANGED <<asked, known, unlisted>>
    /\ \E reply \in Replies :
          /\ Justified(b, reply)
          /\ answer' = [r \in Slots |-> IF r \in rs THEN reply ELSE answer[r]]

Leave(rs) ==
    /\ asked' = [r \in Slots |-> IF r \in rs THEN None ELSE asked[r]]
    /\ answer' = [r \in Slots |-> IF r \in rs THEN NoAnswer ELSE answer[r]]
    /\ UNCHANGED <<known, unlisted>>

\* What is known only grows, and never while somebody is being answered.
Learn ==
    /\ known \subseteq known' /\ known' \subseteq Record
    /\ unlisted \subseteq unlisted' /\ unlisted' \subseteq Bins
    /\ UNCHANGED <<asked, answer>>

Next ==
    \/ Learn
    \/ \E r \in Slots, b \in Bins : Ask(r, b)
    \/ \E rs \in SUBSET Slots : Leave(rs)
    \/ \E rs \in (SUBSET Slots) \ {{}}, b \in Bins : Reply(rs, b)

Spec == Init /\ [][Next]_vars
=============================================================================
