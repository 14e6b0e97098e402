----------------------------- MODULE Publishers -----------------------------
(***************************************************************************)
(* One call of Publish of each adapter under contrib/publishers.  The      *)
(* client libraries are external and modelled as the adapters use them:    *)
(*   kafka   WriteMessages takes the whole batch and returns nil only when *)
(*           every message was written;                                    *)
(*   nats    PublishMsg queues a message on the connection, which sends it *)
(*           some time, in order, or loses it; FlushWithContext returns    *)
(*           nil only when the server has taken all that was queued;       *)
(*   valkey  Do runs one command; an error says nothing about its effect.  *)
(* The messages of a batch are alike in their metadata and headers.        *)
(***************************************************************************)
EXTENDS Naturals, Mappers

CONSTANTS
  N,             \* messages of the batch
  HeaderNames,   \* names callers give their headers
  NatsFlush      \* FALSE for a NATS publisher built with WithoutFlush

ASSUME PublishersAssumption ==
  N \in Nat /\ NatsFlush \in BOOLEAN /\ IsFiniteSet(HeaderNames)

VARIABLES
  adapter,   \* "kafka", "nats", "pubsub" or "stream"
  row,       \* metadata the rows have
  headers,   \* their headers, in the order they are walked
  next,      \* the message Publish is at
  queued,    \* nats: messages on the connection and not sent yet
  broken,    \* nats: the connection has lost what was queued on it
  received, returned

publisherVars == <<adapter, row, headers, next, queued, broken, received, returned>>

message == <<adapter, row, headers>>
Batch == 1 .. N

PublishersInit ==
  /\ adapter \in {"kafka", "nats", "pubsub", "stream"}
  /\ row \in {S \in SUBSET Plain : Always \subseteq S}
  /\ headers \in SetToAllKPermutations(HeaderNames)
  /\ next = 1
  /\ queued = {} /\ broken = FALSE
  /\ received = {} /\ returned = "no"

Running(a) == returned = "no" /\ adapter = a

-----------------------------------------------------------------------------
\* The mapper fails, and Publish with it.  What came before stays sent.
MapperError ==
  /\ returned = "no" /\ next <= N
  /\ returned' = "error"
  /\ UNCHANGED <<message, next, queued, broken, received>>

\* kafka: all messages are mapped before any is written.
KafkaMap ==
  /\ Running("kafka") /\ next <= N
  /\ next' = next + 1
  /\ UNCHANGED <<message, queued, broken, received, returned>>

KafkaWrite ==
  /\ Running("kafka") /\ next > N
  /\ \E S \in SUBSET Batch, r \in {"nil", "error"} :
       /\ r = "nil" => S = Batch
       /\ received' = S
       /\ returned' = r
  /\ UNCHANGED <<message, next, queued, broken>>

-----------------------------------------------------------------------------
\* nats: PublishMsg.  A message queued on a broken connection is lost too.
NatsPublish ==
  /\ Running("nats") /\ next <= N
  /\ next' = next + 1
  /\ queued' = IF broken THEN queued ELSE queued \cup {next}
  /\ UNCHANGED <<message, broken, received, returned>>

NatsPublishError ==
  /\ Running("nats") /\ next <= N
  /\ returned' = "error"
  /\ UNCHANGED <<message, next, queued, broken, received>>

\* The connection sends the oldest message queued, also after Publish returned.
Transmit ==
  /\ \E m \in queued : /\ \A o \in queued : m <= o
                       /\ queued' = queued \ {m}
                       /\ received' = received \cup {m}
  /\ UNCHANGED <<message, next, broken, returned>>

ConnectionLost ==
  /\ adapter = "nats" /\ ~broken
  /\ broken' = TRUE
  /\ queued' = {}
  /\ UNCHANGED <<message, next, received, returned>>

\* Defect: the error of the flush is dropped.
NatsFlushed_IgnoresError ==
  /\ Running("nats") /\ next > N
  /\ returned' = "nil"
  /\ UNCHANGED <<message, next, queued, broken, received>>

\* The end of Publish: with the flush, or without one.
NatsFlushed ==
  /\ Running("nats") /\ next > N
  /\ \E r \in {"nil", "error"} :
       /\ r = "nil" => (NatsFlush => queued = {} /\ ~broken)
       /\ r = "error" => NatsFlush
       /\ returned' = r
  /\ UNCHANGED <<message, next, queued, broken, received>>

-----------------------------------------------------------------------------
\* valkey, PUBLISH and XADD alike: one command per message.
ValkeyDo ==
  /\ Running("pubsub") \/ Running("stream")
  /\ next <= N
  /\ next' = next + 1
  /\ received' = received \cup {next}
  /\ UNCHANGED <<message, queued, broken, returned>>

ValkeyError ==
  /\ Running("pubsub") \/ Running("stream")
  /\ next <= N
  /\ received' \in {received, received \cup {next}}
  /\ returned' = "error"
  /\ UNCHANGED <<message, next, queued, broken>>

ValkeyDone ==
  /\ Running("pubsub") \/ Running("stream")
  /\ next > N
  /\ returned' = "nil"
  /\ UNCHANGED <<message, next, queued, broken, received>>

PublishersNext ==
  \/ MapperError
  \/ KafkaMap \/ KafkaWrite
  \/ NatsPublish \/ NatsPublishError \/ Transmit \/ ConnectionLost \/ NatsFlushed
  \/ ValkeyDo \/ ValkeyError \/ ValkeyDone

PublishersSpec == PublishersInit /\ [][PublishersNext]_publisherVars

-----------------------------------------------------------------------------
Contract == INSTANCE PublisherContract

\* Every adapter keeps the contract: one command or one batch at a time, with
\* mapper errors, partial writes and lost connections at any point, nil is
\* returned only for a batch the transport has in full.
ImplementsContract == Contract!Spec

\* Who wrote the entries of a name, as the transport gets them.
Sent(name) == DefaultMapper(adapter, row, headers)[name]

Reserved(n) == n \in Range(MetadataOf(adapter)) /\ n \in row

\* The transport has a message of an adapter that sends headers or fields.
Arrived == received # {} /\ adapter # "pubsub"

\* Whatever names the caller chose and in whatever order the map is walked, a
\* consumer, who takes the last entry of a name, finds the row's metadata under
\* its reserved names, and every other header of the caller's, once; a stream
\* loses no header to the metadata.
NothingHidden ==
  Arrived =>
    /\ \A n \in Plain : Reserved(n) =>
         Sent(<<"", n>>) # << >> /\ Last(Sent(<<"", n>>)) = "row"
    /\ \A h \in Range(headers) :
         \/ adapter # "stream" /\ Reserved(h)
         \/ Sent(<<Prefix(adapter), h>>) = <<"caller">>

=============================================================================
