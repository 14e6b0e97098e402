------------------------------ MODULE Mappers ------------------------------
(***************************************************************************)
(* The default mappers under contrib/publishers: how a message's headers,  *)
(* which the caller chose, and the metadata of its row share the headers   *)
(* of a Kafka or NATS message or the fields of a Valkey stream entry.  The *)
(* caller's headers are a Go map, walked in any order, and may bear the    *)
(* very names the mapper uses.                                             *)
(*                                                                         *)
(* A name is <<prefix, name>>.  What is sent is kept by name: for each     *)
(* name, who wrote an entry of it, "caller" or "row", in their order.      *)
(* Topic, key and a payload that is no field are passed on as they are,    *)
(* and left out; that is all the mapper for PUBLISH does.                  *)
(***************************************************************************)
EXTENDS SequencesExt

\* Metadata each mapper writes, in its order, when the row has it.
MetadataOf(m) ==
  CASE m = "kafka"  -> <<"id", "content-type", "message-type">>
    [] m = "nats"   -> <<"id", "content-type", "message-type", "partition-key">>
    [] m = "stream" -> <<"payload", "id", "partition-key", "content-type",
                         "message-type", "created-at">>

Always == {"payload", "id", "created-at"}   \* never empty in a row

Plain == Always \cup {"content-type", "message-type", "partition-key"}

\* Header.Set of NATS replaces; Kafka headers and stream fields are appended.
Wrote(m, entries, name, who) ==
  [entries EXCEPT ![name] = IF m = "nats" THEN <<who>> ELSE Append(entries[name], who)]

\* These names, one after the other, as far as they are there to be written.
WriteAll(m, entries, names, there, who) ==
  LET written[i \in 0 .. Len(names)] ==
        IF i = 0 THEN entries
        ELSE IF names[i] \in there THEN Wrote(m, written[i - 1], names[i], who)
        ELSE written[i - 1]
  IN  written[Len(names)]

Prefix(m) == IF m = "stream" THEN "header." ELSE ""

\* The loop over the headers, in the order the map is walked.
CopyHeaders(m, headers, entries) ==
  LET names == [i \in 1 .. Len(headers) |-> <<Prefix(m), headers[i]>>]
  IN  WriteAll(m, entries, names, Range(names), "caller")

MetadataNames(m) == [i \in 1 .. Len(MetadataOf(m)) |-> <<"", MetadataOf(m)[i]>>]

\* Defect: a header of the caller's keeps its place.
Metadata_KeepsHeaders(m, row, entries) ==
  WriteAll(m, entries, MetadataNames(m),
           {n \in {""} \X row : entries[n] = << >>}, "row")

\* appendMetadata, setMetadata, and the fields of DefaultStreamMapper.
Metadata(m, row, entries) ==
  WriteAll(m, entries, MetadataNames(m), {""} \X row, "row")

\* A row with the metadata `row` and these headers, as it is sent.
DefaultMapper(m, row, headers) ==
  LET none == [n \in {"", "header."} \X (Plain \cup Range(headers)) |-> << >>]
  IN  IF m = "stream"
      THEN CopyHeaders(m, headers, Metadata(m, row, none))
      ELSE Metadata(m, row, CopyHeaders(m, headers, none))

=============================================================================
