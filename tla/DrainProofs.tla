----------------------------- MODULE DrainProofs -----------------------------
(***************************************************************************)
(* Proof that the drain of Drain leaves nothing behind unless something    *)
(* failed, for any backlog, partition, workers and batch size.             *)
(***************************************************************************)
EXTENDS Drain, TLAPS, WellFoundedInduction

\* A set of natural numbers that is not empty has a least element.
LEMMA LeastRow ==
  ASSUME NEW T \in SUBSET Nat, T # {}
  PROVE  \E x \in T : \A y \in T : x <= y
<1> DEFINE R == OpToRel(<, Nat)
<1>1. IsWellFoundedOn(R, Nat)
  BY NatLessThanWellFounded
<1>2. \A x, y \in Nat : x < y => <<x, y>> \in R
  BY DEF OpToRel
<1> HIDE DEF R
<1>3. PICK x \in T : \A y \in T : ~(<<y, x>> \in R)
  BY <1>1, WFMin, Zenon
<1>4. \A y \in T : ~(y < x)
  BY <1>2, <1>3
<1>5. \A y \in T : x <= y
  BY <1>4
<1> QED BY <1>5

DrainTypes ==
  /\ keyed \in SUBSET Rows /\ due \in SUBSET Rows
  /\ status \in [Rows -> {"pending", "processing", "published", "dead"}]
  /\ worker \in [Workers -> {"select", "drain", "publish"}]
  /\ batch \in [Workers -> SUBSET Rows]
  /\ owned \in [Workers -> SUBSET Rows]

\* Only a worker that publishes holds rows.
HeldWhilePublishing ==
  \A w \in Workers : worker[w] # "publish" => owned[w] = {}

\* Until something fails no row is dead, and a row that is not published can be
\* claimed, its predecessors permitting, or is held by a worker.
NothingForgotten ==
  ~failed => \A r \in Rows :
               /\ status[r] # "dead"
               /\ \/ status[r] = "published"
                  \/ r \in due
                  \/ \E w \in Workers : r \in owned[w]

DrainInv == DrainTypes /\ HeldWhilePublishing /\ NothingForgotten /\ BacklogDrains

\* With nobody holding a row and nothing failed, the first row that is not
\* published can be claimed.
LEMMA FirstIsClaimable ==
  ASSUME DrainInv, ~failed, \A w \in Workers : worker[w] # "publish",
         Claimable = {}
  PROVE  \A r \in Rows : status[r] = "published"
<1> DEFINE Left == {r \in Rows : status[r] # "published"}
<1> SUFFICES ASSUME Left # {} PROVE FALSE
  OBVIOUS
<1>1. Rows \subseteq Nat
  BY DrainAssumption DEF Rows
<1>2. PICK r \in Left : \A e \in Left : r <= e
  BY <1>1, LeastRow
<1>3. \A e \in Rows : e < r => status[e] = "published"
  BY <1>1, <1>2
<1>4. keyed \subseteq Rows
  BY DEF DrainInv, DrainTypes
<1>5. ~Blocked(r)
  BY <1>3, <1>4 DEF Blocked
<1>6. \A w \in Workers : owned[w] = {}
  BY DEF DrainInv, HeldWhilePublishing
<1>7. r \in due /\ status[r] \in {"pending", "processing"}
  BY <1>2, <1>6 DEF DrainInv, DrainTypes, NothingForgotten
<1> QED BY <1>5, <1>7 DEF Claimable

\* The invariant holds initially.
LEMMA DrainInit == Init => DrainInv
<1> SUFFICES ASSUME Init PROVE DrainInv
  OBVIOUS
<1>1. DrainTypes
  BY DEF Init, DrainTypes
<1>2. HeldWhilePublishing /\ NothingForgotten /\ BacklogDrains
  BY DEF Init, HeldWhilePublishing, NothingForgotten, BacklogDrains
<1> QED BY <1>1, <1>2 DEF DrainInv

\* What a pass claims is among the rows.
LEMMA ClaimedRows ==
  ASSUME DrainTypes
  PROVE  Claimed \in SUBSET Rows
  BY DEF DrainTypes, Claimed, Claimable

\* A claim moves rows from the due ones to a worker.
LEMMA ClaimKeeps ==
  ASSUME DrainInv, NEW w \in Workers, Claim(w)
  PROVE  DrainInv'
<1> USE DEF DrainInv
<1>1. PICK S \in SUBSET Rows : S = Claimed
  BY ClaimedRows
<1>2. /\ worker' = [worker EXCEPT ![w] = "publish"]
      /\ status' = [r \in Rows |-> IF r \in S THEN "processing" ELSE status[r]]
      /\ due' = due \ S
      /\ batch' = [batch EXCEPT ![w] = S] /\ owned' = [owned EXCEPT ![w] = S]
      /\ UNCHANGED <<keyed, woken, failed>>
      /\ worker[w] = "drain"
  BY <1>1 DEF Claim, Leased
<1>3. DrainTypes'
  BY <1>2 DEF DrainTypes
<1>4. HeldWhilePublishing'
  BY <1>2 DEF HeldWhilePublishing, DrainTypes
<1>5. NothingForgotten'
  <2>1. owned[w] = {}
    BY <1>2 DEF HeldWhilePublishing
  <2> SUFFICES ASSUME ~failed, NEW r \in Rows
               PROVE  /\ status'[r] # "dead"
                      /\ \/ status'[r] = "published"
                         \/ r \in due'
                         \/ \E v \in Workers : r \in owned'[v]
    BY <1>2 DEF NothingForgotten
  <2>2. CASE r \in S
    BY <1>2, <2>2 DEF DrainTypes
  <2>3. CASE r \notin S
    <3>1. status'[r] = status[r] /\ (r \in due' <=> r \in due)
      BY <1>2, <2>3
    <3>2. \A v \in Workers : r \in owned[v] => r \in owned'[v]
      BY <1>2, <2>1 DEF DrainTypes
    <3> QED BY <3>1, <3>2 DEF NothingForgotten
  <2> QED BY <2>2, <2>3
<1>6. BacklogDrains'
  BY <1>2 DEF BacklogDrains, DrainTypes
<1> QED BY <1>3, <1>4, <1>5, <1>6

\* A worker that settles its batch without a failure has published all it held.
LEMMA SettleKeeps ==
  ASSUME DrainInv, NEW w \in Workers, Settle(w)
  PROVE  DrainInv'
<1> USE DEF DrainInv
<1>1. PICK v \in [owned[w] -> {"published", "dead"} \cup Retried] :
        /\ status' = [r \in Rows |-> IF r \notin owned[w] THEN status[r]
                                     ELSE IF v[r] \in Retried THEN "pending" ELSE v[r]]
        /\ due' = due \cup {r \in owned[w] : v[r] = "retry now"}
        /\ failed' = (failed \/ owned[w] # batch[w]
                             \/ \E r \in owned[w] : v[r] # "published")
  BY DEF Settle
<1>2. /\ worker' = [worker EXCEPT ![w] = After(w)]
      /\ batch' = [batch EXCEPT ![w] = {}] /\ owned' = [owned EXCEPT ![w] = {}]
      /\ UNCHANGED <<keyed, woken>> /\ worker[w] = "publish"
  BY DEF Settle
<1>3. owned[w] \subseteq Rows /\ After(w) \in {"select", "drain"}
  BY DEF DrainTypes, After
<1>4. \A r \in owned[w] : v[r] \in {"published", "dead"} \cup Retried
  OBVIOUS
<1>5. DrainTypes'
  <2>1. \A r \in Rows : status'[r] \in {"pending", "processing", "published", "dead"}
    BY <1>1, <1>4 DEF DrainTypes
  <2>2. status' \in [Rows -> {"pending", "processing", "published", "dead"}]
    BY <1>1, <2>1
  <2>3. due' \in SUBSET Rows
    BY <1>1, <1>3 DEF DrainTypes
  <2>4. worker' \in [Workers -> {"select", "drain", "publish"}]
    BY <1>2, <1>3 DEF DrainTypes
  <2> QED BY <1>2, <2>2, <2>3, <2>4 DEF DrainTypes
<1>6. HeldWhilePublishing'
  BY <1>2 DEF HeldWhilePublishing, DrainTypes
<1>7. NothingForgotten'
  <2> SUFFICES ASSUME ~failed', NEW r \in Rows
               PROVE  /\ status'[r] # "dead"
                      /\ \/ status'[r] = "published"
                         \/ r \in due'
                         \/ \E x \in Workers : r \in owned'[x]
    BY DEF NothingForgotten
  <2>1. ~failed /\ \A x \in owned[w] : v[x] = "published"
    BY <1>1
  <2>2. CASE r \in owned[w]
    BY <1>1, <2>1, <2>2 DEF Retried
  <2>3. CASE r \notin owned[w]
    <3>1. status'[r] = status[r] /\ (r \in due => r \in due')
      BY <1>1, <2>3
    <3>2. \A x \in Workers : r \in owned[x] => r \in owned'[x]
      BY <1>2, <2>3 DEF DrainTypes
    <3> QED BY <2>1, <3>1, <3>2 DEF NothingForgotten
  <2> QED BY <2>2, <2>3
<1>8. BacklogDrains'
  <2>1. ~failed' => worker'[w] = "drain"
    BY <1>1, <1>2 DEF After, DrainTypes
  <2> QED BY <2>1 DEF BacklogDrains
<1> QED BY <1>5, <1>6, <1>7, <1>8

\* A pass that claims nothing ends a drain only when nothing is left, or another
\* worker goes on.
LEMMA ClaimNothingKeeps ==
  ASSUME DrainInv, NEW w \in Workers, ClaimNothing(w)
  PROVE  DrainInv'
<1> USE DEF DrainInv
<1>1. /\ worker' = [worker EXCEPT ![w] = "select"] /\ worker[w] = "drain"
      /\ UNCHANGED <<keyed, status, due, batch, owned, woken, failed>>
      /\ Claimable = {}
  BY DEF ClaimNothing
<1>2. \A v \in Workers \ {w} : worker'[v] = worker[v]
  BY <1>1 DEF DrainTypes
<1>3. DrainTypes'
  BY <1>1 DEF DrainTypes
<1>4. HeldWhilePublishing' /\ NothingForgotten'
  BY <1>1, <1>2 DEF HeldWhilePublishing, NothingForgotten
<1>5. BacklogDrains'
  <2> SUFFICES ASSUME ~failed, \A v \in Workers : worker'[v] = "select"
               PROVE  \A r \in Rows : status[r] = "published"
    BY <1>1 DEF BacklogDrains
  <2>1. \A v \in Workers : worker[v] # "publish"
    BY <1>1, <1>2
  <2> QED BY <1>1, <2>1, FirstIsClaimable
<1> QED BY <1>3, <1>4, <1>5

\* Every step keeps the invariant.
LEMMA DrainNext == DrainInv /\ [Next]_vars => DrainInv'
<1> SUFFICES ASSUME DrainInv, [Next]_vars PROVE DrainInv'
  OBVIOUS
<1> USE DEF DrainInv
<1>1. ASSUME NEW w \in Workers, Wake(w) PROVE DrainInv'
  <2>1. /\ worker' = [worker EXCEPT ![w] = "drain"] /\ worker[w] = "select"
        /\ UNCHANGED <<keyed, status, due, batch, owned, failed>>
    BY <1>1 DEF Wake
  <2>2. worker'[w] = "drain" /\ \A v \in Workers \ {w} : worker'[v] = worker[v]
    BY <2>1 DEF DrainTypes
  <2>3. DrainTypes'
    BY <2>1 DEF DrainTypes
  <2>4. HeldWhilePublishing' /\ NothingForgotten' /\ BacklogDrains'
    BY <2>1, <2>2 DEF HeldWhilePublishing, NothingForgotten, BacklogDrains
  <2> QED BY <2>3, <2>4
<1>2. ASSUME NEW w \in Workers, Abandon(w) PROVE DrainInv'
  <2>1. /\ worker' = [worker EXCEPT ![w] = "select"]
        /\ batch' = [batch EXCEPT ![w] = {}] /\ owned' = [owned EXCEPT ![w] = {}]
        /\ failed' /\ UNCHANGED <<keyed, status, due>>
    BY <1>2 DEF Abandon
  <2>2. DrainTypes'
    BY <2>1 DEF DrainTypes
  <2>3. HeldWhilePublishing' /\ NothingForgotten' /\ BacklogDrains'
    BY <2>1 DEF HeldWhilePublishing, NothingForgotten, BacklogDrains, DrainTypes
  <2> QED BY <2>2, <2>3
<1>3. ASSUME NEW w \in Workers, LoseLease(w) PROVE DrainInv'
  <2>1. PICK r \in owned[w] : /\ owned' = [owned EXCEPT ![w] = @ \ {r}]
                              /\ due' = due \cup {r}
    BY <1>3 DEF LoseLease
  <2>2. UNCHANGED <<keyed, status, worker, batch, woken, failed>>
    BY <1>3 DEF LoseLease
  <2>3. DrainTypes'
    BY <2>1, <2>2 DEF DrainTypes
  <2>4. \A v \in Workers : owned'[v] = IF v = w THEN owned[w] \ {r} ELSE owned[v]
    BY <2>1 DEF DrainTypes
  <2>5. HeldWhilePublishing' /\ BacklogDrains'
    BY <2>2, <2>4 DEF HeldWhilePublishing, BacklogDrains
  <2>6. NothingForgotten'
    BY <2>1, <2>2, <2>4 DEF NothingForgotten
  <2> QED BY <2>3, <2>5, <2>6
<1>4. CASE ComeDue \/ UNCHANGED vars
  <2>1. /\ due \subseteq due' /\ due' \subseteq Rows
        /\ UNCHANGED <<keyed, status, worker, batch, owned, woken, failed>>
    BY <1>4 DEF ComeDue, vars, DrainTypes
  <2>2. DrainTypes'
    BY <2>1 DEF DrainTypes
  <2>3. HeldWhilePublishing' /\ NothingForgotten' /\ BacklogDrains'
    BY <2>1 DEF HeldWhilePublishing, NothingForgotten, BacklogDrains
  <2> QED BY <2>2, <2>3
<1> QED BY <1>1, <1>2, <1>3, <1>4, ClaimKeeps, ClaimNothingKeeps, SettleKeeps
           DEF Next, WorkerStep

\* A backlog drains without waiting for another poll: when every worker waits
\* again and nothing has failed, every row is published, whatever the batch
\* size, the number of workers and the rows that share the key.
THEOREM DrainLeavesNothing == Spec => []BacklogDrains
<1>1. DrainInv => BacklogDrains
  BY DEF DrainInv
<1> QED BY <1>1, DrainInit, DrainNext, PTL DEF Spec

=============================================================================
