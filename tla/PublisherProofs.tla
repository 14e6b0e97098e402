-------------------------- MODULE PublisherProofs --------------------------
(***************************************************************************)
(* Proofs that the adapters of Publishers keep the contract of a publisher *)
(* and that their mappers hide nothing, for batches of any size, any       *)
(* headers and any order in which they are walked.                         *)
(***************************************************************************)
EXTENDS Publishers, TLAPS, FiniteSetTheorems, WellFoundedInduction

Returns == {"no", "nil", "error"}

\* Where each adapter is: what it has passed is received, or queued on a
\* connection that still stands; kafka has written nothing before it returns.
PublishInv ==
  /\ next \in 1 .. N + 1
  /\ received \subseteq Batch /\ queued \subseteq Batch
  /\ returned \in Returns /\ broken \in BOOLEAN
  /\ queued # {} => adapter = "nats"
  /\ adapter = "kafka" /\ returned = "no" => received = {}
  /\ adapter = "nats" /\ ~broken => 1 .. next - 1 \subseteq received \cup queued
  /\ adapter \in {"pubsub", "stream"} => 1 .. next - 1 \subseteq received

\* Nothing is passed, queued or received at the start.
LEMMA PublishInit == PublishersInit => PublishInv
<1> SUFFICES ASSUME PublishersInit PROVE PublishInv
  OBVIOUS
<1>1. next \in 1 .. N + 1 /\ 1 .. next - 1 = {}
  BY PublishersAssumption DEF PublishersInit
<1>2. /\ received = {} /\ queued = {} /\ broken = FALSE /\ returned = "no"
  BY DEF PublishersInit
<1> QED BY <1>1, <1>2 DEF PublishInv, Returns

\* Passing one more message extends what was passed by just that one.
LEMMA NextOne ==
  ASSUME PublishInv, next <= N
  PROVE  /\ next + 1 \in 1 .. N + 1 /\ next \in Batch
         /\ 1 .. (next + 1) - 1 = (1 .. next - 1) \cup {next}
  BY PublishersAssumption DEF PublishInv, Batch

\* One step of one adapter.
LEMMA PublishStep == PublishInv /\ [PublishersNext]_publisherVars => PublishInv'
<1> SUFFICES ASSUME PublishInv, [PublishersNext]_publisherVars PROVE PublishInv'
  OBVIOUS
<1> USE PublishersAssumption DEF PublishInv, Returns, Running, message
<1>1. CASE MapperError
  BY <1>1 DEF MapperError, Batch
<1>2. CASE KafkaMap
  BY <1>2, NextOne DEF KafkaMap, Batch
<1>3. CASE KafkaWrite
  BY <1>3 DEF KafkaWrite, Batch
<1>4. CASE NatsPublish
  <2>1. next' = next + 1 /\ next <= N /\ adapter' = "nats"
    BY <1>4 DEF NatsPublish
  <2>2. ~broken' => 1 .. next' - 1 \subseteq received' \cup queued'
    BY <1>4, <2>1, NextOne DEF NatsPublish
  <2> QED BY <1>4, <2>1, <2>2, NextOne DEF NatsPublish, Batch
<1>5. CASE NatsPublishError
  BY <1>5 DEF NatsPublishError, Batch
<1>6. CASE Transmit
  BY <1>6 DEF Transmit, Batch
<1>7. CASE ConnectionLost
  BY <1>7 DEF ConnectionLost, Batch
<1>8. CASE NatsFlushed
  BY <1>8 DEF NatsFlushed, Batch
<1>9. CASE ValkeyDo
  <2>1. next' = next + 1 /\ next <= N /\ adapter' \in {"pubsub", "stream"}
    BY <1>9 DEF ValkeyDo
  <2> QED BY <1>9, <2>1, NextOne DEF ValkeyDo, Batch
<1>10. CASE ValkeyError
  BY <1>10, NextOne DEF ValkeyError, Batch
<1>11. CASE ValkeyDone
  BY <1>11 DEF ValkeyDone, Batch
<1>12. CASE UNCHANGED publisherVars
  BY <1>12 DEF publisherVars, Batch
<1> QED BY <1>1, <1>2, <1>3, <1>4, <1>5, <1>6, <1>7, <1>8, <1>9, <1>10, <1>11, <1>12
    DEF PublishersNext

-----------------------------------------------------------------------------
\* Every step of an adapter is one of the contract, or invisible to it.
LEMMA ContractStep ==
  NatsFlush /\ PublishInv /\ [PublishersNext]_publisherVars => [Contract!Next]_(Contract!vars)
<1> SUFFICES ASSUME NatsFlush, PublishInv, [PublishersNext]_publisherVars
             PROVE  [Contract!Next]_(Contract!vars)
  OBVIOUS
<1>1. ASSUME returned = "no", returned' = "error",
             \E S \in SUBSET Batch : received' = received \cup S
      PROVE  Contract!Next
  BY <1>1 DEF Contract!Next, Contract!ReturnError, Contract!ReceiveSome
<1>2. ASSUME returned = "no", returned' = "nil", received' = Batch
      PROVE  Contract!Next
  <2>1. received' = received \cup Batch
    BY <1>2 DEF PublishInv
  <2> QED BY <1>2, <2>1 DEF Contract!Next, Contract!ReturnNil, Contract!ReceiveSome
<1>3. ASSUME received' = received
       PROVE  \E S \in SUBSET Batch : received' = received \cup S
  <2>1. received' = received \cup {} /\ {} \in SUBSET Batch
    BY <1>3
  <2> QED BY <2>1, Zenon
<1>4. CASE UNCHANGED <<received, returned>>
  BY <1>4 DEF Contract!vars
<1>5. ASSUME NEW m \in Batch, received' = received \cup {m}, returned' = returned
      PROVE  Contract!Next
  BY <1>5 DEF Contract!Next, Contract!Receive
<1>6. CASE MapperError \/ NatsPublishError
  <2>1. returned = "no" /\ returned' = "error" /\ received' = received
    BY <1>6 DEF MapperError, NatsPublishError, Running
  <2> QED BY <1>1, <1>3, <2>1
<1>7. CASE KafkaMap \/ NatsPublish \/ ConnectionLost \/ UNCHANGED publisherVars
  BY <1>4, <1>7 DEF KafkaMap, NatsPublish, ConnectionLost, publisherVars
<1>8. CASE KafkaWrite
  <2>1. PICK S \in SUBSET Batch, r \in {"nil", "error"} :
          (r = "nil" => S = Batch) /\ received' = S /\ returned' = r
    BY <1>8 DEF KafkaWrite
  <2>2. returned = "no" /\ received' = received \cup S
    BY <1>8, <2>1 DEF KafkaWrite, Running, PublishInv
  <2> QED BY <1>1, <1>2, <2>1, <2>2
<1>9. CASE Transmit
  <2>1. PICK m \in queued : received' = received \cup {m}
    BY <1>9 DEF Transmit
  <2>2. m \in Batch /\ returned' = returned
    BY <1>9 DEF Transmit, PublishInv
  <2> QED BY <1>5, <2>1, <2>2
<1>10. CASE NatsFlushed
  <2>1. PICK r \in {"nil", "error"} : (r = "nil" => queued = {} /\ ~broken) /\ returned' = r
    BY <1>10 DEF NatsFlushed
  <2>2. returned = "no" /\ received' = received /\ adapter = "nats" /\ next > N
    BY <1>10 DEF NatsFlushed, Running
  <2>3. CASE r = "error"
    BY <1>1, <1>3, <2>1, <2>2, <2>3
  <2>4. CASE r = "nil"
    <3>1. next - 1 = N
      BY <2>2, PublishersAssumption DEF PublishInv
    <3>2. Batch \subseteq received
      BY <2>1, <2>2, <2>4, <3>1 DEF PublishInv, Batch
    <3>3. received' = Batch
      BY <2>2, <3>2 DEF PublishInv
    <3> QED BY <1>2, <2>1, <2>2, <2>4, <3>3
  <2> QED BY <2>3, <2>4
<1>11. CASE ValkeyDo
  <2>1. received' = received \cup {next} /\ returned' = returned /\ next \in Batch
    BY <1>11, NextOne DEF ValkeyDo
  <2> QED BY <1>5, <2>1
<1>12. CASE ValkeyError
  <2>1. returned = "no" /\ returned' = "error" /\ next \in Batch
    BY <1>12, NextOne DEF ValkeyError, Running
  <2>2. \E S \in SUBSET Batch : received' = received \cup S
    <3>1. CASE received' = received
      BY <1>3, <3>1
    <3>2. CASE received' = received \cup {next}
      BY <2>1, <3>2
    <3> QED BY <1>12, <3>1, <3>2 DEF ValkeyError
  <2> QED BY <1>1, <2>1, <2>2
<1>13. CASE ValkeyDone
  <2>1. returned = "no" /\ returned' = "nil" /\ received' = received /\ next - 1 = N
        /\ adapter \in {"pubsub", "stream"}
    BY <1>13, PublishersAssumption DEF ValkeyDone, Running, PublishInv
  <2>2. received' = Batch
    BY <2>1 DEF PublishInv, Batch
  <2> QED BY <1>2, <2>1, <2>2
<1> QED BY <1>6, <1>7, <1>8, <1>9, <1>10, <1>11, <1>12, <1>13 DEF PublishersNext

\* Every adapter returns nil only for a batch the transport has in full, for any
\* size of the batch and wherever an error, a lost connection or a partial write
\* falls.  NATS needs its flush for that: WithoutFlush gives the promise up.
THEOREM AdaptersKeepContract ==
  ASSUME NatsFlush
  PROVE  PublishersSpec => ImplementsContract
<1>1. PublishersInit => Contract!Init
  BY DEF PublishersInit, Contract!Init
<1>2. PublishInv /\ [PublishersNext]_publisherVars => [Contract!Next]_(Contract!vars)
  BY ContractStep
<1> QED BY <1>1, <1>2, PublishInit, PublishStep, PTL
    DEF PublishersSpec, ImplementsContract, Contract!Spec

-----------------------------------------------------------------------------
(***************************************************************************)
(* The mappers                                                             *)
(***************************************************************************)

\* A set of natural numbers that is not empty has a least element.
LEMMA LeastNat ==
  ASSUME NEW T \in SUBSET Nat, T # {}
  PROVE  \E x \in T : \A y \in T : x <= y
<1> DEFINE R == OpToRel(<, Nat)
<1>1. IsWellFoundedOn(R, Nat)
  BY NatLessThanWellFounded
<1>2. \A x, y \in Nat : x < y => <<x, y>> \in R
  BY DEF OpToRel
<1> HIDE DEF R
<1>3. PICK x \in T : \A y \in T : ~(<<y, x>> \in R)
  BY <1>1, WFMin, Zenon
<1>4. \A y \in T : ~(y < x)
  BY <1>2, <1>3
<1>5. \A y \in T : x <= y
  BY <1>4
<1> QED BY <1>5

\* One turn of the loop of WriteAll.
Turn(m, o, names, i, there, who) ==
  IF names[i] \in there THEN Wrote(m, o, names[i], who) ELSE o

\* f[i] is what the first i of n turns leave.
Turns(f, n, m, entries, names, there, who) ==
  f = [i \in 0 .. n |->
        IF i = 0 THEN entries ELSE Turn(m, f[i - 1], names, i, there, who)]

\* The loop has a result: for any bound there is a function that satisfies the
\* recursion so far, the one for one turn less extended.
LEMMA WritingExists ==
  ASSUME NEW m, NEW entries, NEW names, NEW there, NEW who, NEW n \in Nat
  PROVE  \E f : Turns(f, n, m, entries, names, there, who)
<1> DEFINE Good(k, f) == Turns(f, k, m, entries, names, there, who)
           Bad == {k \in Nat : ~ \E f : Good(k, f)}
<1> SUFFICES ASSUME Bad # {} PROVE FALSE
  OBVIOUS
<1>1. PICK k \in Bad : \A l \in Bad : k <= l
  BY LeastNat
<1>2. CASE k = 0
  <2> DEFINE g == [i \in 0 .. 0 |-> entries]
  <2>1. Good(0, g)
    BY DEF Turns
  <2> QED BY <1>2, <2>1
<1>3. CASE k > 0
  <2>1. k - 1 \in Nat \ Bad
    BY <1>1, <1>3
  <2>2. PICK g : Good(k - 1, g)
    BY <2>1
  <2> DEFINE h == [i \in 0 .. k |->
                    IF i = k THEN Turn(m, g[k - 1], names, k, there, who) ELSE g[i]]
  <2>3. \A i \in 0 .. k - 1 : h[i] = g[i]
    BY <1>3
  <2>4. \A i \in 0 .. k - 1 :
          g[i] = IF i = 0 THEN entries ELSE Turn(m, g[i - 1], names, i, there, who)
    BY <2>2 DEF Turns
  <2>5. ASSUME NEW i \in 0 .. k
        PROVE  h[i] = IF i = 0 THEN entries ELSE Turn(m, h[i - 1], names, i, there, who)
    <3>1. CASE i = k
      <4>1. h[i - 1] = g[k - 1]
        BY <1>3, <2>3, <3>1
      <4> HIDE DEF Good
      <4> QED BY <1>3, <3>1, <4>1
    <3>2. CASE i # k
      <4>1. i \in 0 .. k - 1 /\ (i # 0 => i - 1 \in 0 .. k - 1)
        BY <3>2
      <4> HIDE DEF h
      <4> QED BY <2>3, <2>4, <4>1
    <3> QED BY <3>1, <3>2
  <2>6. Good(k, h)
    BY <2>5 DEF Turns
  <2> QED BY <2>6
<1> QED BY <1>2, <1>3

\* WriteAll is the result of that loop.
LEMMA WriteAllDef ==
  ASSUME NEW m, NEW entries, NEW names, NEW there, NEW who, Len(names) \in Nat
  PROVE  \E f :
           /\ f[0] = entries
           /\ \A i \in 1 .. Len(names) : f[i] = Turn(m, f[i - 1], names, i, there, who)
           /\ WriteAll(m, entries, names, there, who) = f[Len(names)]
<1> DEFINE Good(f) ==
             f = [i \in 0 .. Len(names) |->
                   IF i = 0 THEN entries
                   ELSE IF names[i] \in there THEN Wrote(m, f[i - 1], names[i], who)
                   ELSE f[i - 1]]
           g == CHOOSE f : Good(f)
<1>1. \E f : Good(f)
  <2>1. PICK f : Turns(f, Len(names), m, entries, names, there, who)
    BY WritingExists
  <2>2. Good(f)
    BY <2>1 DEF Turns, Turn
  <2> QED BY <2>2
<1>2. Good(g)
  BY <1>1
<1>3. WriteAll(m, entries, names, there, who) = g[Len(names)]
  BY DEF WriteAll
<1> HIDE DEF g
<1>4. g[0] = entries
  BY <1>2
<1>5. \A i \in 1 .. Len(names) : g[i] = Turn(m, g[i - 1], names, i, there, who)
  BY <1>2 DEF Turn
<1> QED BY <1>3, <1>4, <1>5

\* A function, as the entries are, and the names a sequence lists.
IsFcn(e) == e = [x \in DOMAIN e |-> e[x]]
Listed(names) == {names[i] : i \in 1 .. Len(names)}

\* A sequence without repetition.
Distinct(s) ==
  /\ Len(s) \in Nat /\ DOMAIN s = 1 .. Len(s)
  /\ \A i, j \in 1 .. Len(s) : s[i] = s[j] => i = j

\* The entries with one more for each of these names.
Once(m, entries, S, who) ==
  [x \in DOMAIN entries |->
    IF x \in S THEN IF m = "nats" THEN <<who>> ELSE Append(entries[x], who) ELSE entries[x]]

\* The names of S that are there are written, once each, and no other.
Writes(m, entries, names, there, who, S) ==
  WriteAll(m, entries, names, there, who) = Once(m, entries, there \cap S, who)

\* Names that are all different are written once each, and no other name is
\* touched: in whatever order they come.
LEMMA WrittenOnce ==
  ASSUME NEW m, NEW entries, NEW names, NEW there, NEW who, Distinct(names),
         Listed(names) \subseteq DOMAIN entries, IsFcn(entries)
  PROVE  Writes(m, entries, names, there, who, Listed(names))
<1>1. /\ Len(names) \in Nat
      /\ \A i, j \in 1 .. Len(names) : names[i] = names[j] => i = j
      /\ \A i \in 1 .. Len(names) : names[i] \in DOMAIN entries
  BY DEF Distinct, Listed
<1> DEFINE After(n) ==
             [x \in DOMAIN entries |->
               IF x \in there /\ \E i \in 1 .. n : names[i] = x
               THEN IF m = "nats" THEN <<who>> ELSE Append(entries[x], who)
               ELSE entries[x]]
<1>2. PICK f : /\ f[0] = entries
               /\ \A i \in 1 .. Len(names) : f[i] = Turn(m, f[i - 1], names, i, there, who)
               /\ WriteAll(m, entries, names, there, who) = f[Len(names)]
  BY <1>1, WriteAllDef
<1> DEFINE Bad == {n \in 0 .. Len(names) : f[n] # After(n)}
<1>3. SUFFICES ASSUME Bad # {} PROVE FALSE
  <2>1. Len(names) \in 0 .. Len(names)
    BY <1>1
  <2>2. f[Len(names)] = After(Len(names))
    BY <2>1
  <2> QED BY <1>2, <2>2 DEF Writes, Once, Listed
<1>4. Bad \in SUBSET Nat
  OBVIOUS
<1>5. PICK n \in Bad : \A l \in Bad : n <= l
  BY <1>3, <1>4, LeastNat, Zenon
<1>6. n \in 0 .. Len(names) /\ f[n] # After(n)
  OBVIOUS
<1>7. CASE n = 0
  <2>1. \A x : ~ \E i \in 1 .. 0 : names[i] = x
    OBVIOUS
  <2>2. After(0) = [x \in DOMAIN entries |-> entries[x]]
    BY <2>1, Zenon
  <2> QED BY <1>2, <1>6, <1>7, <2>2 DEF IsFcn
<1>8. CASE n > 0
  <2>1. n \in 1 .. Len(names) /\ n - 1 \in 0 .. Len(names)
    <3> HIDE DEF Bad
    <3> QED BY <1>1, <1>6, <1>8
  <2>2. n - 1 \notin Bad
    <3> HIDE DEF Bad
    <3> QED BY <1>5, <2>1
  <2>3. f[n - 1] = After(n - 1) /\ f[n] = Turn(m, f[n - 1], names, n, there, who)
    BY <1>2, <2>1, <2>2
  <2>4. \A i \in 1 .. n : i = n \/ i \in 1 .. n - 1
    BY <2>1
  <2>5. \A i \in 1 .. n - 1 : names[i] # names[n] /\ i \in 1 .. n
    BY <1>1, <2>1
  <2>6. n \in 1 .. n /\ names[n] \in DOMAIN entries
    BY <1>1, <2>1
  <2>7. Turn(m, After(n - 1), names, n, there, who) = After(n)
    <3>1. CASE names[n] \in there
      <4>1. After(n - 1)[names[n]] = entries[names[n]]
        BY <2>5, <2>6
      <4> QED BY <2>4, <2>5, <2>6, <3>1, <4>1 DEF Turn, Wrote
    <3>2. CASE names[n] \notin there
      BY <2>4, <2>5, <2>6, <3>2 DEF Turn
    <3> QED BY <3>1, <3>2
  <2> QED BY <1>6, <2>3, <2>7
<1> QED BY <1>6, <1>7, <1>8

\* What a caller gives: headers in the order they are walked, each name once, and
\* metadata that a row can have.  No step of Publish changes it.
MessageInv ==
  /\ adapter \in {"kafka", "nats", "pubsub", "stream"}
  /\ row \in SUBSET Plain
  /\ Distinct(headers)

\* The headers callers give are sequences without repetition.
LEMMA MessageInit == PublishersInit => MessageInv
<1> SUFFICES ASSUME PublishersInit PROVE MessageInv
  OBVIOUS
<1>1. PICK S \in SUBSET HeaderNames : headers \in SetToSeqs(S)
  BY DEF PublishersInit, SetToAllKPermutations
<1>2. Cardinality(S) \in Nat
  BY PublishersAssumption, FS_Subset, FS_CardinalityType
<1>3. /\ headers \in [1 .. Cardinality(S) -> S]
      /\ \A i, j \in 1 .. Cardinality(S) : i # j => headers[i] # headers[j]
  BY <1>1 DEF SetToSeqs
<1>4. Len(headers) = Cardinality(S)
  BY <1>2, <1>3
<1>5. adapter \in {"kafka", "nats", "pubsub", "stream"} /\ row \in SUBSET Plain
  BY DEF PublishersInit
<1> QED BY <1>2, <1>3, <1>4, <1>5 DEF MessageInv, Distinct

\* No step changes what the caller gave.
LEMMA MessageStep == MessageInv /\ [PublishersNext]_publisherVars => MessageInv'
<1> SUFFICES ASSUME MessageInv, [PublishersNext]_publisherVars PROVE MessageInv'
  OBVIOUS
<1>1. UNCHANGED <<adapter, row, headers>>
  BY DEF PublishersNext, publisherVars, message, MapperError, KafkaMap, KafkaWrite,
         NatsPublish,
         NatsPublishError, Transmit, ConnectionLost, NatsFlushed, ValkeyDo, ValkeyError,
         ValkeyDone
<1> QED BY <1>1 DEF MessageInv

\* The metadata of a mapper: different names, each of them one a row may have.
LEMMA MetadataFacts ==
  ASSUME NEW m \in {"kafka", "nats", "stream"}
  PROVE  /\ Distinct(MetadataOf(m))
         /\ \A i \in 1 .. Len(MetadataOf(m)) : MetadataOf(m)[i] \in Plain
<1>1. CASE m = "kafka"
  BY <1>1 DEF MetadataOf, Plain, Always, Distinct
<1>2. CASE m = "nats"
  BY <1>2 DEF MetadataOf, Plain, Always, Distinct
<1>3. CASE m = "stream"
  BY <1>3 DEF MetadataOf, Plain, Always, Distinct
<1> QED BY <1>1, <1>2, <1>3

\* Different names under one prefix are written once each.
LEMMA WrittenUnder ==
  ASSUME NEW m, NEW p, NEW of, NEW names, NEW there, NEW who, NEW entries,
         names = [i \in 1 .. Len(of) |-> <<p, of[i]>>],
         IsFcn(entries),
         Distinct(of),
         {p} \X Range(of) \subseteq DOMAIN entries
  PROVE  Writes(m, entries, names, there, who, {p} \X Range(of))
<1>1. Len(names) = Len(of) /\ \A i \in 1 .. Len(names) : names[i] = <<p, of[i]>>
  BY DEF Distinct
<1>2. Distinct(names)
  BY <1>1 DEF Distinct
<1>3. Listed(names) = {p} \X Range(of)
  <2>1. \A i \in 1 .. Len(names) : names[i] \in {p} \X Range(of)
    BY <1>1 DEF Range, Distinct
  <2>2. ASSUME NEW x \in {p} \X Range(of) PROVE x \in Listed(names)
    <3>1. PICK n \in Range(of) : x = <<p, n>>
      OBVIOUS
    <3>2. PICK i \in 1 .. Len(of) : n = of[i]
      BY DEF Range, Distinct
    <3> QED BY <1>1, <3>1, <3>2 DEF Listed
  <2> QED BY <2>1, <2>2 DEF Listed
<1>4. Writes(m, entries, names, there, who, Listed(names))
  BY <1>2, <1>3, WrittenOnce, Zenon
<1> QED BY <1>3, <1>4, Zenon

\* What writing the metadata does to each name.
LEMMA MetadataEffect ==
  ASSUME NEW m \in {"kafka", "nats", "stream"}, NEW r, NEW entries,
         IsFcn(entries),
         {""} \X Plain \subseteq DOMAIN entries
  PROVE  Metadata(m, r, entries) =
           Once(m, entries, ({""} \X r) \cap ({""} \X Range(MetadataOf(m))), "row")
<1>1. /\ Distinct(MetadataOf(m))
      /\ \A i \in 1 .. Len(MetadataOf(m)) : MetadataOf(m)[i] \in Plain
  BY MetadataFacts, Zenon
<1>2. \A n \in Range(MetadataOf(m)) : n \in Plain
  BY <1>1, Zenon DEF Range, Distinct
<1>3. {""} \X Range(MetadataOf(m)) \subseteq DOMAIN entries
  BY <1>2
<1>4. Metadata(m, r, entries) = WriteAll(m, entries, MetadataNames(m), {""} \X r, "row")
  BY Zenon DEF Metadata
<1>5. MetadataNames(m) = [i \in 1 .. Len(MetadataOf(m)) |-> <<"", MetadataOf(m)[i]>>]
  BY Zenon DEF MetadataNames
<1>6. Writes(m, entries, MetadataNames(m), {""} \X r, "row", {""} \X Range(MetadataOf(m)))
  BY <1>1, <1>3, <1>5, WrittenUnder, Zenon
<1> QED BY <1>4, <1>6, Zenon DEF Writes

\* The same for the loop over the headers.
LEMMA HeadersEffect ==
  ASSUME NEW m \in {"kafka", "nats", "stream"}, NEW hs, NEW entries,
         IsFcn(entries),
         Distinct(hs),
         {Prefix(m)} \X Range(hs) \subseteq DOMAIN entries
  PROVE  CopyHeaders(m, hs, entries) = Once(m, entries, {Prefix(m)} \X Range(hs), "caller")
<1>1. PICK names : names = [i \in 1 .. Len(hs) |-> <<Prefix(m), hs[i]>>]
  OBVIOUS
<1>2. CopyHeaders(m, hs, entries) = WriteAll(m, entries, names, Range(names), "caller")
  BY <1>1, Zenon DEF CopyHeaders
<1>3. Range(names) \cap ({Prefix(m)} \X Range(hs)) = {Prefix(m)} \X Range(hs)
  <2>1. ASSUME NEW x \in {Prefix(m)} \X Range(hs) PROVE x \in Range(names)
    <3>1. PICK n \in Range(hs) : x = <<Prefix(m), n>>
      OBVIOUS
    <3>2. PICK i \in 1 .. Len(hs) : n = hs[i]
      BY DEF Range, Distinct
    <3> QED BY <1>1, <3>1, <3>2 DEF Range, Distinct
  <2> QED BY <2>1
<1>4. Writes(m, entries, names, Range(names), "caller", {Prefix(m)} \X Range(hs))
  BY <1>1, WrittenUnder, Zenon
<1> QED BY <1>2, <1>3, <1>4, Zenon DEF Writes

\* Each of these names has one more entry, and no other.
OneMore(m, before, after, S, who) ==
  /\ IsFcn(after) /\ DOMAIN after = DOMAIN before
  /\ \A x \in DOMAIN before : x \notin S => after[x] = before[x]
  /\ \A x \in DOMAIN before : x \in S /\ m = "nats" => after[x] = <<who>>
  /\ \A x \in DOMAIN before : x \in S /\ m # "nats" => after[x] = Append(before[x], who)

\* That is what Once says.
LEMMA OnceFacts ==
  ASSUME NEW m, NEW entries, NEW S, NEW who, NEW after, after = Once(m, entries, S, who)
  PROVE  OneMore(m, entries, after, S, who)
BY DEF Once, IsFcn, OneMore

\* The last of one or two entries.
LEMMA LastOf ==
  /\ <<"row">> # << >> /\ Last(<<"row">>) = "row"
  /\ <<"caller", "row">> # << >> /\ Last(<<"caller", "row">>) = "row"
BY DEF Last

\* The names of the row's metadata in what a mapper sends.
RowNames(m, r) == ({""} \X r) \cap ({""} \X Range(MetadataOf(m)))

\* No mapper hides the metadata or loses a header.
LEMMA MapperHidesNothing == MessageInv => NothingHidden
<1> SUFFICES ASSUME MessageInv, Arrived PROVE NothingHidden
  BY DEF NothingHidden
<1>1. PICK D : D = {"", "header."} \X (Plain \cup Range(headers))
  OBVIOUS
<1>2. PICK none : none = [n \in D |-> << >>]
  OBVIOUS
<1>3. PICK p : p = Prefix(adapter)
  OBVIOUS
<1>4. PICK C : C = {p} \X Range(headers)
  OBVIOUS
<1>5. PICK R : R = RowNames(adapter, row)
  OBVIOUS
<1>6. adapter \in {"kafka", "nats", "stream"} /\ Distinct(headers)
  BY DEF MessageInv, Arrived
<1>7. IsFcn(none) /\ DOMAIN none = D /\ \A x \in D : none[x] = << >>
  BY <1>2 DEF IsFcn
<1>8. p = IF adapter = "stream" THEN "header." ELSE ""
  BY <1>3 DEF Prefix
<1>9. C \subseteq D /\ {""} \X Plain \subseteq D
  BY <1>1, <1>4, <1>8
<1>10. \A n : <<"", n>> \in R <=> Reserved(n)
  BY <1>5 DEF Reserved, RowNames
<1>11. \A h \in Range(headers) : <<p, h>> \in C /\ <<p, h>> \in D
  BY <1>4, <1>9
<1>12. \A n \in Plain : <<"", n>> \in D
  BY <1>9
<1>13. CASE adapter = "stream"
  <2>1. PICK first : first = Once(adapter, none, R, "row")
    OBVIOUS
  <2>2. PICK sent : sent = Once(adapter, first, C, "caller")
    OBVIOUS
  <2>3. OneMore(adapter, none, first, R, "row") /\ OneMore(adapter, first, sent, C, "caller")
    BY <2>1, <2>2, OnceFacts, Zenon
  <2>4. Metadata(adapter, row, none) = first
    BY <1>5, <1>6, <1>7, <1>9, <2>1, MetadataEffect, Zenon DEF RowNames
  <2>5. IsFcn(first) /\ DOMAIN first = D
    BY <1>7, <2>3, Zenon DEF OneMore
  <2>6. CopyHeaders(adapter, headers, first) = sent
    BY <1>3, <1>4, <1>6, <1>9, <2>2, <2>5, HeadersEffect, Zenon
  <2>7. DefaultMapper(adapter, row, headers) = sent
    BY <1>1, <1>2, <1>13, <2>4, <2>6, Zenon DEF DefaultMapper
  <2>8. \A x \in D : first[x] = IF x \in R THEN Append(<< >>, "row") ELSE << >>
    <3>1. adapter # "nats"
      BY <1>13
    <3>2. /\ \A x \in D : x \notin R => first[x] = none[x]
          /\ \A x \in D : x \in R => first[x] = Append(none[x], "row")
      BY <1>7, <2>3, <3>1, Zenon DEF OneMore
    <3> QED BY <1>7, <3>2
  <2>9. \A x \in D : sent[x] = IF x \in C THEN Append(first[x], "caller") ELSE first[x]
    <3>1. adapter # "nats"
      BY <1>13
    <3>2. /\ \A x \in D : x \notin C => sent[x] = first[x]
          /\ \A x \in D : x \in C => sent[x] = Append(first[x], "caller")
      BY <2>5, <2>3, <3>1, Zenon DEF OneMore
    <3> QED BY <3>2
  <2>10. \A n : <<"", n>> \notin C
    BY <1>4, <1>8, <1>13
  <2>11. ASSUME NEW n \in Plain, Reserved(n)
         PROVE  Sent(<<"", n>>) # << >> /\ Last(Sent(<<"", n>>)) = "row"
    <3>1. PICK x : x = <<"", n>>
      OBVIOUS
    <3>2. x \in D /\ x \in R /\ x \notin C
      BY <1>10, <1>12, <2>10, <2>11, <3>1, Zenon
    <3>3. sent[x] = <<"row">>
      BY <2>8, <2>9, <3>2
    <3>4. Sent(<<"", n>>) = <<"row">>
      BY <2>7, <3>1, <3>3, Zenon DEF Sent
    <3> QED BY <3>4, LastOf
  <2>12. ASSUME NEW h \in Range(headers) PROVE Sent(<<p, h>>) = <<"caller">>
    <3>1. <<p, h>> \notin R
      BY <1>5, <1>8, <1>13 DEF RowNames
    <3>2. PICK x : x = <<p, h>>
      OBVIOUS
    <3>3. x \in D /\ x \in C /\ x \notin R
      BY <1>11, <3>1, <3>2, Zenon
    <3>4. first[x] = << >> /\ sent[x] = Append(first[x], "caller")
      BY <2>8, <2>9, <3>3, Zenon
    <3>5. sent[x] = <<"caller">>
      BY <3>4
    <3> QED BY <2>7, <3>2, <3>5, Zenon DEF Sent
  <2> QED BY <1>3, <2>11, <2>12 DEF NothingHidden
<1>14. CASE adapter # "stream"
  <2>1. PICK first : first = Once(adapter, none, C, "caller")
    OBVIOUS
  <2>2. PICK sent : sent = Once(adapter, first, R, "row")
    OBVIOUS
  <2>3. OneMore(adapter, none, first, C, "caller") /\ OneMore(adapter, first, sent, R, "row")
    BY <2>1, <2>2, OnceFacts, Zenon
  <2>4. CopyHeaders(adapter, headers, none) = first
    BY <1>3, <1>4, <1>6, <1>7, <1>9, <2>1, HeadersEffect, Zenon
  <2>5. IsFcn(first) /\ DOMAIN first = D
    BY <1>7, <2>3, Zenon DEF OneMore
  <2>6. Metadata(adapter, row, first) = sent
    BY <1>5, <1>6, <1>9, <2>2, <2>5, MetadataEffect, Zenon DEF RowNames
  <2>7. DefaultMapper(adapter, row, headers) = sent
    BY <1>1, <1>2, <1>14, <2>4, <2>6, Zenon DEF DefaultMapper
  <2>8. \A x \in D : first[x] = IF x \in C THEN <<"caller">> ELSE << >>
    <3>1. /\ \A x \in D : x \notin C => first[x] = none[x]
          /\ \A x \in D : x \in C /\ adapter = "nats" => first[x] = <<"caller">>
          /\ \A x \in D : x \in C /\ adapter # "nats" => first[x] = Append(none[x], "caller")
      BY <1>7, <2>3, Zenon DEF OneMore
    <3> QED BY <1>7, <3>1
  <2>9. \A x \in D : x \in R => sent[x] = <<"row">> \/ sent[x] = Append(first[x], "row")
    BY <2>5, <2>3, Zenon DEF OneMore
  <2>10. \A x \in D : x \notin R => sent[x] = first[x]
    BY <2>5, <2>3, Zenon DEF OneMore
  <2>11. ASSUME NEW n \in Plain, Reserved(n)
         PROVE  Sent(<<"", n>>) # << >> /\ Last(Sent(<<"", n>>)) = "row"
    <3>1. PICK x : x = <<"", n>>
      OBVIOUS
    <3>2. x \in D /\ x \in R
      BY <1>10, <1>12, <2>11, <3>1, Zenon
    <3>3. /\ first[x] = << >> \/ first[x] = <<"caller">>
          /\ sent[x] = <<"row">> \/ sent[x] = Append(first[x], "row")
      BY <2>8, <2>9, <3>2, Zenon
    <3>4. sent[x] = <<"row">> \/ sent[x] = <<"caller", "row">>
      BY <3>3
    <3>5. Sent(<<"", n>>) = sent[x]
      BY <2>7, <3>1, Zenon DEF Sent
    <3> QED BY <3>4, <3>5, LastOf, Zenon
  <2>12. ASSUME NEW h \in Range(headers), ~Reserved(h) PROVE Sent(<<p, h>>) = <<"caller">>
    <3>1. <<p, h>> \notin R
      BY <1>8, <1>10, <1>14, <2>12
    <3> QED BY <1>11, <2>7, <2>8, <2>10, <3>1 DEF Sent
  <2> QED BY <1>3, <1>14, <2>11, <2>12 DEF NothingHidden
<1> QED BY <1>13, <1>14

\* No mapper hides the row's metadata behind a header or loses one of the caller's,
\* for any names the caller gives its headers and any order the map is walked in.
THEOREM MappersHideNothing == PublishersSpec => []NothingHidden
<1>1. PublishersSpec => []MessageInv
  BY MessageInit, MessageStep, PTL DEF PublishersSpec
<1> QED BY <1>1, MapperHidesNothing, PTL

=============================================================================
