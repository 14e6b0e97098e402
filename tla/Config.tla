------------------------------- MODULE Config -------------------------------
(***************************************************************************)
(* config/config.go and New of outbox.go: options are applied in order to  *)
(* the defaults, the result is normalised and decides what Run will start. *)
(*                                                                         *)
(* A value is what the code can tell apart.  For sizes and durations that  *)
(* is negative (-1), zero, a value given (1) or the default (2); for the   *)
(* strings and pointers 0 is empty or nil, 1 given, 2 the default, and -1  *)
(* a string that is not an identifier; for the flags 0 and 1.              *)
(***************************************************************************)
EXTENDS Integers, Sequences

CONSTANT MaxOptions   \* bound of the number of options

ASSUME ConfigAssumption == MaxOptions \in Nat

VARIABLE opts   \* the options passed to New, in order

-----------------------------------------------------------------------------
\* Sizes and durations the engine cannot run without.
Bounded == {"PollInterval", "BatchSize", "LeaseDuration", "Concurrency", "MaxAttempts"}

\* Durations for which zero means off.
Optional == {"Retention", "DeadRetention", "DiscardRetention", "PublishTimeout",
             "CleanupInterval"}

Flags == {"ClearPayloadOnComplete", "Ordered", "Notify"}

\* Dependencies whose options ignore nil, and those whose options do not.
Required == {"Backoff", "Fatal", "Hooks", "Logger"}
Plugged  == {"Codec", "ListenPool"}

Fields == Bounded \cup Optional \cup Flags \cup Required \cup Plugged
            \cup {"Schema", "InstanceID"}

\* The fields of the declarative Config.
Declared == Bounded \cup Optional \cup Flags \cup {"Schema"}

Default ==
  [f \in Fields |->
     CASE f \in Bounded \cup Required \cup {"Schema"} -> 2
       [] f = "Notify" -> 1
       [] OTHER        -> 0]

\* A Config whose sizes and durations, and whose flags, are all v or b.  Its
\* flag for Notify is inverted: the zero Config keeps notifications on.
ConfigOf(v, b, schema) ==
  [f \in Declared |->
     CASE f = "Schema" -> schema
       [] f = "Notify" -> 1 - b
       [] f \in Flags \ {"Notify"} -> b
       [] OTHER        -> v]

Configs == {ConfigOf(0, 0, 0), ConfigOf(1, 1, 1), ConfigOf(-1, 0, -1)}

\* Each option is the set of fields it is about and their values.
Only(f, v) == [x \in {f} |-> v]

Option ==
  {Only(f, v) : f \in Bounded \cup Optional, v \in {-1, 0, 1}}
  \cup {Only(f, v) : f \in {"ClearPayloadOnComplete", "Ordered"}, v \in {0, 1}}
  \cup {Only("Notify", 0)}
  \cup {Only(f, v) : f \in Required \cup Plugged \cup {"InstanceID"}, v \in {0, 1}}
  \cup {Only("Schema", v) : v \in {-1, 0, 1}}
  \cup Configs

\* Defect: nil dependencies are not ignored.
Given_NilToo(o, f) == f \in DOMAIN o

\* An option sets its fields, except that nil dependencies are ignored.
Given(o, f) == f \in DOMAIN o /\ ~(f \in Required /\ o[f] = 0)

Apply(s, o) == [f \in Fields |-> IF Given(o, f) THEN o[f] ELSE s[f]]

\* The settings after the first n options.
Applied[n \in 0 .. MaxOptions] ==
  IF n = 0 THEN Default ELSE Apply(Applied[n - 1], opts[n])

\* Defect: a size or duration of zero is taken as it is.
Normalised_AllowsZero(s, f) ==
  IF (f \in Required \cup {"Schema", "InstanceID"} /\ s[f] = 0)
       \/ (f \in Bounded /\ s[f] < 0)
  THEN 2 ELSE s[f]

\* Fallbacks of Resolve; an empty instance id is generated.
Normalised(s, f) ==
  IF \/ f \in Bounded /\ s[f] <= 0
     \/ f \in Required \cup {"Schema", "InstanceID"} /\ s[f] = 0
  THEN 2 ELSE s[f]

Resolve(n) == [f \in Fields |-> Normalised(Applied[n], f)]

-----------------------------------------------------------------------------
\* What New makes of the settings and of the relay executor it is given, which
\* may be nil, a *pgxpool.Pool or something else.
New(s, exec) ==
  [err |-> IF s["Schema"] = -1 THEN "ErrInvalidSchema"
           ELSE IF exec = "nil" THEN "ErrNoExecutor" ELSE "none",
   listenPool |-> IF s["ListenPool"] # 0 THEN "option"
                  ELSE IF exec = "pool" THEN "exec" ELSE "none"]

\* Relay.Run starts a listener, Cleaner.run goes on to its loop.
Listens(s, exec) == s["Notify"] = 1 /\ New(s, exec).listenPool # "none"

\* Defect: any value but zero counts as a retention.
Cleans_NonZero(s) ==
  /\ s["CleanupInterval"] # 0
  /\ s["Retention"] # 0 \/ s["DeadRetention"] # 0 \/ s["DiscardRetention"] # 0

Cleans(s) ==
  /\ s["CleanupInterval"] > 0
  /\ s["Retention"] > 0 \/ s["DeadRetention"] > 0 \/ s["DiscardRetention"] > 0

-----------------------------------------------------------------------------
ConfigInit == opts = <<>>

AddOption == /\ Len(opts) < MaxOptions
             /\ \E o \in Option : opts' = Append(opts, o)

ConfigSpec == ConfigInit /\ [][AddOption]_opts

-----------------------------------------------------------------------------
settings == Resolve(Len(opts))

\* What the engine takes a setting for: it asks of the durations that may be off
\* whether they are positive.
effect(f) == IF f \in Optional /\ settings[f] <= 0 THEN 0 ELSE settings[f]

\* Whatever options and declarative values are combined, in whatever order,
\* what New accepts can run: tickers get a positive period, claims a positive
\* batch and lease, no dependency the engine calls is nil.
Runnable ==
  \A exec \in {"pool", "other"} : New(settings, exec).err = "none" =>
    /\ \A f \in Bounded \cup Required \cup {"InstanceID"} : settings[f] > 0
    /\ settings["Schema"] > 0

\* A setting takes effect as the last option that gives it a usable value says,
\* with no option in between undoing it unseen, and otherwise as the default:
\* every size or duration that is not positive falls back to it, also where the
\* default is off and Resolve keeps the negative value.  WithConfig is one of the
\* options, "apply it before any narrower Option you want to win".
LastOptionDecides ==
  \A f \in Fields :
    LET giving == {i \in DOMAIN opts : /\ f \in DOMAIN opts[i]
                                       /\ f \in Required => opts[i][f] # 0}
        last   == opts[CHOOSE i \in giving : \A j \in giving : j <= i][f]
        usable == f \in Flags \cup Plugged \/ last > 0 \/ (f = "Schema" /\ last < 0)
    IN  effect(f) = IF giving # {} /\ usable THEN last
                    ELSE IF f = "InstanceID" THEN 2 ELSE Default[f]

\* README: "two interchangeable styles, usable together (functional options win)":
\* the value an option of its own gives a setting is not replaced by a Config.
OptionsWin ==
  \A f \in Declared :
    LET narrow == {i \in DOMAIN opts : DOMAIN opts[i] = {f}}
        last   == opts[CHOOSE i \in narrow : \A j \in narrow : j <= i][f]
    IN  narrow # {} /\ last > 0 => settings[f] = last

\* Deleting rows, clearing payloads and ordered mode are opt-in: nothing but an
\* option that says so switches them on, no zero or negative value does.
\* Notifications go off only when an option says so: a zero-value Config, or one
\* for other settings, does not silently leave a relay with a pool to polling.
SafeByDefault ==
  /\ Cleans(settings) => \E i, j \in DOMAIN opts :
       /\ "CleanupInterval" \in DOMAIN opts[i] /\ opts[i]["CleanupInterval"] = 1
       /\ \E f \in {"Retention", "DeadRetention", "DiscardRetention"} :
            f \in DOMAIN opts[j] /\ opts[j][f] = 1
  /\ \A f \in {"ClearPayloadOnComplete", "Ordered"} :
       settings[f] = 1 => \E i \in DOMAIN opts : f \in DOMAIN opts[i] /\ opts[i][f] = 1
  /\ (\A i \in DOMAIN opts : opts[i] \notin {Only("Notify", 0), ConfigOf(1, 1, 1)})
       => Listens(settings, "pool")

=============================================================================
