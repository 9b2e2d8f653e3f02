----------------------------- MODULE CachedMemory -----------------------------
(***************************************************************************)
(* What a cache promises its requester: a memory that takes one request at *)
(* a time and answers it.  A load that succeeds returns the word, a store  *)
(* that succeeds has changed it, a request that fails has changed nothing, *)
(* and nothing else changes a word, save a reset.                          *)
(***************************************************************************)
CONSTANTS Tags, Sets, Beats, Values, None

VARIABLES contents, pending, reply

Lines == [Beats -> Values]
Contents == [Tags -> [Sets -> Lines]]
Failed == [ok |-> FALSE]
Done == [ok |-> TRUE]
Loaded(v) == [ok |-> TRUE, value |-> v]

Init == contents \in Contents /\ pending = None /\ reply = None

Ask == /\ pending = None
       /\ pending' # None
       /\ reply' \in {None, Failed}
       /\ UNCHANGED contents

Fail == reply' = Failed /\ UNCHANGED contents

Load == /\ pending.kind = "cached" /\ ~pending.write
        /\ reply' = Loaded(contents[pending.tag][pending.set][pending.beat])
        /\ UNCHANGED contents

Store == /\ pending.kind = "cached" /\ pending.write
         /\ reply' = Done
         /\ contents' = [contents EXCEPT
                           ![pending.tag][pending.set][pending.beat] = pending.value]

(* A request outside this memory is answered by whatever lies there.       *)
Elsewhere == /\ pending.kind # "cached"
             /\ IF pending.write THEN reply' = Done
                ELSE \E v \in Values : reply' = Loaded(v)
             /\ UNCHANGED contents

Serve == /\ pending # None /\ reply = None
         /\ Fail \/ Load \/ Store \/ Elsewhere
         /\ UNCHANGED pending

Take == reply # None /\ pending' = None /\ reply' = None /\ UNCHANGED contents

Reset == contents' \in Contents /\ pending' = None /\ reply' = None

Next == Ask \/ Serve \/ Take \/ Reset

Spec == Init /\ [][Next]_<<contents, pending, reply>>
=============================================================================
