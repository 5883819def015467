------------------------ MODULE IntrospectionProofs ------------------------
(***************************************************************************)
(* What the update command never does to a configuration (module           *)
(* Introspection), for any collections, samples, validators, schemas       *)
(* written by hand, changes and crashes.                                   *)
(*                                                                         *)
(* The properties speak of the files and of what they were when the run    *)
(* started.  The invariant adds what the command holds in between: which   *)
(* schemas it read, which ones it means to write, and how far it is.       *)
(***************************************************************************)
EXTENDS Introspection, SequenceTheorems, TLAPS

Samplings  == {NoSample} \cup {Yielding(s) : s \in Samples}
Validation == {NoValidator, Malformed} \cup {Declaring(v) : v \in Validators}

\* What a schema file may be
IsFile(x) == x \in {Absent, Torn, Several} \/ (x = Holding(x[2]) /\ IsSchema(x[2]))
IsDirectory(fs) == DOMAIN fs = FileNames /\ \A f \in FileNames : IsFile(fs[f])
\* Schemas by collection
AreSchemas(ss) == DOMAIN ss \subseteq Collections /\ \A c \in DOMAIN ss : IsSchema(ss[c])

EnvironmentTyped ==
    /\ listed \subseteq Collections
    /\ DOMAIN content = Collections /\ \A c \in Collections : content[c] \in Samplings
    /\ DOMAIN validator = Collections /\ \A c \in Collections : validator[c] \in Validation

CommandTyped ==
    /\ DOMAIN cli = DOMAIN Idle
    /\ cli.pc \in Steps /\ cli.skipValidators \in BOOLEAN
    /\ AreSchemas(cli.existing) /\ AreSchemas(cli.pending)
    /\ cli.queue \subseteq DOMAIN cli.pending

\* Where the command is, and what it has in its hands there: one file at most is being
\* written, out of the queue; without validators nothing is queued before the database is
\* sampled; system collections are not sampled.
CommandInOrder ==
    /\ cli.pc \notin {"writeValidators", "writeSamples"} => cli.queue = {}
    /\ cli.writing \subseteq cli.queue
    /\ \A c, d \in cli.writing : c = d
    /\ cli.pc \in {"validators", "writeValidators"} => ~cli.skipValidators
    /\ cli.pc \in {"validators", "read", "list"} => DOMAIN cli.pending = {}
    /\ cli.pc \in {"sample", "writeSamples"} => DOMAIN cli.pending \cap System = {}

\* A run that is on its way, without validators and with no edit since it started
Alone == cli.pc # "idle" /\ cli.skipValidators /\ ~edited
RunBegun == cli.pc # "idle" => IsDirectory(before)

\* What was configured when the run started was read, and is kept by what is to be written
ConfigurationRead ==
    Alone /\ cli.pc \in {"list", "sample", "writeSamples"} =>
        \A c \in Collections : Holds(before, c) =>
            c \in DOMAIN cli.existing /\ cli.existing[c] = SchemaIn(before, c)
PendingKeepsTopLevel ==
    Alone /\ cli.pc \in {"sample", "writeSamples"} =>
        \A c \in DOMAIN cli.pending : Holds(before, c) =>
            KeepsTopLevel(SchemaIn(before, c), cli.pending[c])

\* While nothing changes, what is sampled is to be written, then written
EachIsSampled ==
    ~changed /\ cli.pc \in {"sample", "writeSamples"} =>
        /\ cli.pc = "writeSamples" => cli.unsampled = {}
        /\ \A c \in Collections : IsSampled(c) => c \in cli.unsampled \/ c \in DOMAIN cli.pending
        /\ \A c \in DOMAIN cli.pending :
                IsSampled(c) /\ cli.pending[c] = SampledSchema(c, content[c][2])
EachIsWritten ==
    ~changed /\ cli.pc = "writeSamples" =>
        \A c \in DOMAIN cli.pending \ cli.queue : files[<<c, "json">>] = Holding(cli.pending[c])

IInv ==
    /\ EnvironmentTyped /\ IsDirectory(files) /\ CommandTyped /\ CommandInOrder
    /\ OnlyFileBeingWrittenIsTorn
    /\ RunBegun /\ OnlySampledFilesWritten
    /\ ConfigurationRead /\ PendingKeepsTopLevel /\ ConfiguredTopLevelKept
    /\ EachIsSampled /\ EachIsWritten

------------------------------------------------------------------------------
\* Names and schemas.

\* The path of a type is what is left of its name after the one of the collection's type.
LEMMA PathOfName ==
    ASSUME NEW root \in Seq(STRING), NEW p \in Seq(STRING)
    PROVE  root \o p \in Seq(STRING) /\ SubSeq(root \o p, Len(root) + 1, Len(root \o p)) = p
<1>1. root \o p \in Seq(STRING) /\ Len(root \o p) = Len(root) + Len(p)
  OBVIOUS
<1> DEFINE s == SubSeq(root \o p, Len(root) + 1, Len(root \o p))
<1>2. s \in Seq(STRING) /\ Len(s) = Len(p) /\ \A i \in 1..Len(p) : s[i] = p[i]
  BY <1>1
<1>3. s = p
  BY <1>2, SeqEqual
<1> QED
  BY <1>1, <1>3

\* The object types a sample yields for a collection are object types, the one of the
\* collection among them.
LEMMA RootedTyped ==
    ASSUME NEW root \in Seq(STRING), NEW types, IsRelative(types)
    PROVE  IsObjectTypes(Rooted(root, types)) /\ root \in DOMAIN Rooted(root, types)
<1> DEFINE names == {root \o p : p \in DOMAIN types}
           Relative(n) == SubSeq(n, Len(root) + 1, Len(n))
           R == Rooted(root, types)
<1>1. DOMAIN R = names
  BY DEF Rooted
<1>2. ASSUME NEW n \in names
      PROVE  /\ n \in Seq(STRING) /\ DOMAIN R[n] = {"desc", "fields"}
             /\ \A f \in DOMAIN R[n].fields : IsField(R[n].fields[f])
  <2>1. PICK p \in DOMAIN types : n = root \o p
    OBVIOUS
  <2>2. p \in Seq(STRING) /\ DOMAIN types[p] = {"desc", "fields"}
        /\ \A f \in DOMAIN types[p].fields : IsField(types[p].fields[f])
    BY DEF IsRelative, IsObjectTypes
  <2>3. n \in Seq(STRING) /\ Relative(n) = p
    BY <2>1, <2>2, PathOfName
  <2>4. DOMAIN R[n] = {"desc", "fields"} /\ DOMAIN R[n].fields = DOMAIN types[p].fields
    BY <2>3 DEF Rooted
  <2>5. ASSUME NEW f \in DOMAIN types[p].fields
        PROVE  IsField(R[n].fields[f])
    BY <2>2, <2>3 DEF Rooted, IsField
  <2> QED
    BY <2>3, <2>4, <2>5
<1>3. root \in names
  <2>1. <<>> \in DOMAIN types /\ root = root \o <<>>
    BY DEF IsRelative
  <2> QED
    BY <2>1
<1> QED
  BY <1>1, <1>2, <1>3 DEF IsObjectTypes

\* A word is a name.
LEMMA OneWord == ASSUME NEW S, NEW x \in S PROVE <<x>> \in Seq(S)
OBVIOUS

\* A collection without a schema gets one with its own object type.
LEMMA NewTyped ==
    ASSUME NEW c \in Collections, NEW types, IsRelative(types)
    PROVE  LET s == NewSchema(c, <<c>>, types)
           IN  IsSchema(s) /\ s.type \in DOMAIN s.types
<1>1. c \in STRING
  BY NamesAssumption
<1>2. <<c>> \in Seq(STRING)
  BY <1>1, OneWord
<1> QED
  BY <1>2, RootedTyped DEF NewSchema, IsSchema

\* The merge keeps what is configured, the type of the collection is visited.
LEMMA RootVisited ==
    ASSUME NEW previous, NEW updated, NEW root
    PROVE  root \in Visited(previous, updated, root)
BY DEF Visited

\* The merge of two object types has the fields of both; the type of a configured field
\* changes at most in the object type it names.
LEMMA MergedObjectType ==
    ASSUME NEW old, NEW new, DOMAIN old = {"desc", "fields"},
           \A f \in DOMAIN old.fields : IsField(old.fields[f]),
           \A f \in DOMAIN new.fields : IsField(new.fields[f])
    PROVE  LET merged == BackwardCompatibleObjectType(old, new)
           IN  /\ DOMAIN merged = {"desc", "fields"}
               /\ DOMAIN merged.fields = DOMAIN old.fields \cup DOMAIN new.fields
               /\ \A f \in DOMAIN merged.fields : IsField(merged.fields[f])
               /\ \A f \in DOMAIN old.fields :
                    /\ SameShape(old.fields[f].type, merged.fields[f].type)
                    /\ ~RefersToObject(old.fields[f].type) => merged.fields[f].type = old.fields[f].type
<1> DEFINE merged == BackwardCompatibleObjectType(old, new)
           Both(f) == [type |-> ReconcileTypes(old.fields[f].type, new.fields[f].type),
                       desc |-> OrDescription(old.desc, new.fields[f].desc)]
<1>1. /\ DOMAIN merged = {"desc", "fields"}
      /\ DOMAIN merged.fields = DOMAIN old.fields \cup DOMAIN new.fields
      /\ \A f \in DOMAIN merged.fields :
            merged.fields[f] = IF f \notin DOMAIN new.fields THEN old.fields[f]
                               ELSE IF f \notin DOMAIN old.fields THEN new.fields[f]
                               ELSE Both(f)
  BY DEF BackwardCompatibleObjectType
<1>2. ASSUME NEW f \in DOMAIN old.fields
      PROVE  LET t == old.fields[f].type
                 u == ReconcileTypes(t, new.fields[f].type)
             IN  /\ DOMAIN u = {"wrap", "base"}
                 /\ SameShape(t, u)
                 /\ ~RefersToObject(t) => u = t
  BY DEF ReconcileTypes, MeetsObjects, SameShape, RefersToObject, IsField
<1>3. ASSUME NEW f \in DOMAIN old.fields, f \in DOMAIN new.fields
      PROVE  IsField(Both(f))
  BY <1>2 DEF IsField
<1>4. \A f \in DOMAIN merged.fields : IsField(merged.fields[f])
  BY <1>1, <1>3
<1>5. ASSUME NEW f \in DOMAIN old.fields
      PROVE  /\ SameShape(old.fields[f].type, merged.fields[f].type)
             /\ ~RefersToObject(old.fields[f].type) => merged.fields[f].type = old.fields[f].type
  <2>1. CASE f \in DOMAIN new.fields
    <3>1. merged.fields[f] = Both(f)
      BY <1>1, <2>1
    <3>2. merged.fields[f].type = ReconcileTypes(old.fields[f].type, new.fields[f].type)
      BY <3>1
    <3> QED
      BY <1>2, <3>2
  <2>2. CASE f \notin DOMAIN new.fields
    BY <1>1, <2>2 DEF SameShape
  <2> QED
    BY <2>1, <2>2
<1> QED
  BY <1>1, <1>4, <1>5

\* What is configured with the compatible changes of what was sampled is a schema; it keeps
\* the top level of what is configured, and has the top-level fields of what was sampled.
LEMMA MergedSchema ==
    ASSUME NEW existing, IsSchema(existing), NEW updated, IsObjectTypes(updated)
    PROVE  LET merged == KeepBackwardCompatibleChanges(existing, updated)
           IN  /\ IsSchema(merged) /\ KeepsTopLevel(existing, merged)
               /\ existing.type \in DOMAIN updated =>
                    DOMAIN TopFields([merged EXCEPT !.types = updated]) \subseteq DOMAIN TopFields(merged)
<1> DEFINE merged == KeepBackwardCompatibleChanges(existing, updated)
           previous == existing.types
           root == existing.type
           visited == Visited(previous, updated, root) \cap (DOMAIN previous \cup DOMAIN updated)
<1>1. /\ DOMAIN merged = {"type", "desc", "types"}
      /\ merged.type = root /\ merged.desc = existing.desc
      /\ DOMAIN merged.types = visited
      /\ \A n \in visited :
            merged.types[n] = IF n \notin DOMAIN updated THEN previous[n]
                              ELSE IF n \notin DOMAIN previous THEN updated[n]
                              ELSE BackwardCompatibleObjectType(previous[n], updated[n])
  BY DEF KeepBackwardCompatibleChanges, IsSchema
<1> HIDE DEF merged
<1>2. root \in Seq(STRING) /\ IsObjectTypes(previous)
  BY DEF IsSchema
<1>3. root \in DOMAIN previous \cup DOMAIN updated => root \in visited
  BY RootVisited
<1>4. ASSUME NEW n \in visited
      PROVE  /\ n \in Seq(STRING) /\ DOMAIN merged.types[n] = {"desc", "fields"}
             /\ \A f \in DOMAIN merged.types[n].fields : IsField(merged.types[n].fields[f])
  <2>1. CASE n \notin DOMAIN updated
    BY <1>1, <1>2, <2>1 DEF IsObjectTypes
  <2>2. CASE n \notin DOMAIN previous
    BY <1>1, <2>2 DEF IsObjectTypes
  <2>3. CASE n \in DOMAIN previous \cap DOMAIN updated
    <3>1. merged.types[n] = BackwardCompatibleObjectType(previous[n], updated[n])
      BY <1>1, <2>3
    <3>2. /\ n \in Seq(STRING) /\ DOMAIN previous[n] = {"desc", "fields"}
          /\ \A f \in DOMAIN previous[n].fields : IsField(previous[n].fields[f])
          /\ \A f \in DOMAIN updated[n].fields : IsField(updated[n].fields[f])
      BY <1>2, <2>3 DEF IsObjectTypes
    <3>3. /\ DOMAIN BackwardCompatibleObjectType(previous[n], updated[n]) = {"desc", "fields"}
          /\ \A f \in DOMAIN BackwardCompatibleObjectType(previous[n], updated[n]).fields :
                IsField(BackwardCompatibleObjectType(previous[n], updated[n]).fields[f])
      BY <3>2, MergedObjectType
    <3> QED
      BY <3>1, <3>2, <3>3
  <2> QED
    BY <2>1, <2>2, <2>3
<1>5. IsSchema(merged)
  BY <1>1, <1>2, <1>4 DEF IsSchema, IsObjectTypes
<1>6. KeepsTopLevel(existing, merged)
  <2>1. CASE root \notin DOMAIN previous
    <3>1. DOMAIN TopFields(existing) = {}
      BY <2>1 DEF TopFields
    <3> QED
      BY <1>1, <3>1 DEF KeepsTopLevel
  <2>2. CASE root \in DOMAIN previous \ DOMAIN updated
    <3>1. TopFields(existing) = previous[root].fields /\ TopFields(merged) = previous[root].fields
      BY <1>1, <1>3, <2>2 DEF TopFields
    <3> QED
      BY <1>1, <3>1 DEF KeepsTopLevel, SameShape
  <2>3. CASE root \in DOMAIN previous \cap DOMAIN updated
    <3>1. /\ TopFields(existing) = previous[root].fields
          /\ TopFields(merged) = BackwardCompatibleObjectType(previous[root], updated[root]).fields
      BY <1>1, <1>3, <2>3 DEF TopFields
    <3>2. /\ DOMAIN previous[root] = {"desc", "fields"}
          /\ \A f \in DOMAIN previous[root].fields : IsField(previous[root].fields[f])
          /\ \A f \in DOMAIN updated[root].fields : IsField(updated[root].fields[f])
      BY <1>2, <2>3 DEF IsObjectTypes
    <3> DEFINE top == BackwardCompatibleObjectType(previous[root], updated[root]).fields
    <3>3. /\ DOMAIN top = DOMAIN previous[root].fields \cup DOMAIN updated[root].fields
          /\ \A f \in DOMAIN previous[root].fields :
                /\ SameShape(previous[root].fields[f].type, top[f].type)
                /\ ~RefersToObject(previous[root].fields[f].type) => top[f].type = previous[root].fields[f].type
      BY <3>2, MergedObjectType
    <3> HIDE DEF top
    <3>4. TopFields(merged) = top
      BY <3>1 DEF top
    <3> QED
      BY <1>1, <3>1, <3>3, <3>4 DEF KeepsTopLevel
  <2> QED
    BY <2>1, <2>2, <2>3
<1>7. ASSUME root \in DOMAIN updated
      PROVE  DOMAIN TopFields([merged EXCEPT !.types = updated]) \subseteq DOMAIN TopFields(merged)
  <2>1. TopFields([merged EXCEPT !.types = updated]) = updated[root].fields
    BY <1>1, <1>7 DEF TopFields
  <2>2. CASE root \notin DOMAIN previous
    BY <1>1, <1>3, <1>7, <2>1, <2>2 DEF TopFields
  <2>3. CASE root \in DOMAIN previous
    <3>1. TopFields(merged) = BackwardCompatibleObjectType(previous[root], updated[root]).fields
      BY <1>1, <1>3, <1>7, <2>3 DEF TopFields
    <3>2. DOMAIN updated[root].fields \subseteq DOMAIN TopFields(merged)
      BY <3>1 DEF BackwardCompatibleObjectType
    <3> QED
      BY <2>1, <3>2
  <2> QED
    BY <2>2, <2>3
<1> QED
  BY <1>1, <1>5, <1>6, <1>7 DEF merged

------------------------------------------------------------------------------
\* What the command reads and derives.

\* What is read from a directory that can be read: the schema each file holds.
LEMMA ConfiguredSound ==
    ASSUME NEW fs, IsDirectory(fs), Readable(fs)
    PROVE  /\ AreSchemas(Configured(fs))
           /\ \A c \in Collections : Holds(fs, c) =>
                c \in DOMAIN Configured(fs) /\ Configured(fs)[c] = SchemaIn(fs, c)
<1> DEFINE Held(c) == {fs[<<c, e>>][2] : e \in {x \in Extensions : fs[<<c, x>>][1] = "schema"}}
<1>1. /\ DOMAIN Configured(fs) = {d \in Collections : Held(d) # {}}
      /\ \A c \in DOMAIN Configured(fs) : Configured(fs)[c] = CHOOSE s \in Held(c) : TRUE
  BY DEF Configured
<1>2. ASSUME NEW c \in Collections, NEW s \in Held(c)
      PROVE  IsSchema(s)
  <2>1. PICK e \in Extensions : fs[<<c, e>>][1] = "schema" /\ s = fs[<<c, e>>][2]
    OBVIOUS
  <2>2. IsFile(fs[<<c, e>>])
    BY DEF IsDirectory, FileNames
  <2> QED
    BY <2>1, <2>2 DEF IsFile, Absent, Torn, Several
<1>3. ASSUME NEW c \in DOMAIN Configured(fs)
      PROVE  Configured(fs)[c] \in Held(c)
  BY <1>1
<1>4. ASSUME NEW c \in Collections, Holds(fs, c)
      PROVE  c \in DOMAIN Configured(fs) /\ Configured(fs)[c] = SchemaIn(fs, c)
  <2>1. fs[<<c, "yaml">>] = Absent
    BY <1>4 DEF Readable, Holds, Absent
  <2>2. fs[<<c, "yaml">>][1] # "schema"
    BY <2>1 DEF Absent
  <2>3. ASSUME NEW s \in Held(c) PROVE s = SchemaIn(fs, c)
    <3>1. PICK e \in Extensions : fs[<<c, e>>][1] = "schema" /\ s = fs[<<c, e>>][2]
      OBVIOUS
    <3>2. e = "json"
      BY <2>2, <3>1 DEF Extensions
    <3> QED
      BY <3>1, <3>2 DEF SchemaIn
  <2>4. SchemaIn(fs, c) \in Held(c)
    BY <1>4 DEF Holds, SchemaIn, Extensions
  <2>5. c \in DOMAIN Configured(fs)
    BY <1>1, <2>4
  <2>6. Configured(fs)[c] = SchemaIn(fs, c)
    BY <1>3, <2>3, <2>5
  <2> QED
    BY <2>5, <2>6
<1> QED
  BY <1>1, <1>2, <1>3, <1>4 DEF AreSchemas

\* A schema derived from a sample is a schema; it keeps the top level of what is configured
\* and has the top-level fields of the sample.
LEMMA SampledSound ==
    ASSUME AreSchemas(cli.existing), NEW c \in Collections, NEW types, IsRelative(types)
    PROVE  LET s == SampledSchema(c, types)
           IN  /\ IsSchema(s)
               /\ c \in DOMAIN cli.existing => KeepsTopLevel(cli.existing[c], s)
               /\ DOMAIN TopFields([s EXCEPT !.types = Rooted(s.type, types)]) \subseteq DOMAIN TopFields(s)
<1> DEFINE s == SampledSchema(c, types)
<1>1. CASE c \in DOMAIN cli.existing
  <2> DEFINE old == cli.existing[c]
             updated == Rooted(old.type, types)
  <2>1. IsSchema(old) /\ old.type \in Seq(STRING)
    BY <1>1 DEF AreSchemas, IsSchema
  <2>2. IsObjectTypes(updated) /\ old.type \in DOMAIN updated
    BY <2>1, RootedTyped
  <2>3. s = KeepBackwardCompatibleChanges(old, updated)
    BY <1>1 DEF SampledSchema
  <2> HIDE DEF updated, old, s
  <2>4. /\ IsSchema(s) /\ KeepsTopLevel(old, s)
        /\ DOMAIN TopFields([s EXCEPT !.types = updated]) \subseteq DOMAIN TopFields(s)
    BY <2>1, <2>2, <2>3, MergedSchema
  <2>5. updated = Rooted(s.type, types)
    BY <2>4 DEF KeepsTopLevel, updated
  <2> QED
    BY <2>4, <2>5 DEF old, s
<1>2. CASE c \notin DOMAIN cli.existing
  <2>1. s = NewSchema(c, <<c>>, types)
    BY <1>2 DEF SampledSchema
  <2>2. IsSchema(s)
    BY <2>1, NewTyped
  <2>3. s.types = Rooted(s.type, types)
    BY <2>1 DEF NewSchema
  <2> HIDE DEF s
  <2>4. TopFields([s EXCEPT !.types = Rooted(s.type, types)]) = TopFields(s)
    BY <2>2, <2>3 DEF IsSchema, TopFields
  <2> QED
    BY <1>2, <2>2, <2>4 DEF s
<1> QED
  BY <1>1, <1>2

\* The types a sample or a validator has are those the constants say.
LEMMA SampleTyped ==
    ASSUME EnvironmentTyped, NEW c \in Collections, content[c] # NoSample
    PROVE  IsSample(content[c][2]) /\ IsRelative(content[c][2])
<1>1. content[c][2] \in Samples
  BY DEF EnvironmentTyped, Samplings, NoSample, Yielding
<1> QED
  BY <1>1, SamplesAssumption DEF IsSample

LEMMA ValidatorTyped ==
    ASSUME EnvironmentTyped, NEW c \in Collections, validator[c] \notin {NoValidator, Malformed}
    PROVE  IsRelative(validator[c][2])
BY ValidatorAssumption DEF EnvironmentTyped, Validation, NoValidator, Malformed, Declaring

------------------------------------------------------------------------------
\* The invariant holds at first, and every step keeps it.

\* At first nothing is configured and no run is on its way.
LEMMA InitSound == Init => IInv
<1> SUFFICES ASSUME Init PROVE IInv
  OBVIOUS
<1> USE DEF Init
<1>1. EnvironmentTyped
  BY DEF EnvironmentTyped, Samplings, Validation
<1>2. IsDirectory(files)
  BY DEF IsDirectory, IsFile
<1>3. cli.pc = "idle" /\ cli.queue = {} /\ cli.writing = {}
  BY DEF Idle
<1>4. CommandTyped
  BY DEF CommandTyped, Idle, Steps, AreSchemas
<1>5. CommandInOrder
  BY <1>3 DEF CommandInOrder
<1> QED
  BY <1>1, <1>2, <1>3, <1>4, <1>5 DEF IInv, OnlyFileBeingWrittenIsTorn, RunBegun, OnlySampledFilesWritten,
     ConfigurationRead, PendingKeepsTopLevel, ConfiguredTopLevelKept, EachIsSampled, EachIsWritten, Alone

\* Whatever ends a run, with success or not, leaves the directory as it is.
LEMMA EndOfRun ==
    ASSUME IInv, RunEnds, UNCHANGED <<listed, content, validator, files>>
    PROVE  IInv'
<1>1. EnvironmentTyped' /\ IsDirectory(files)'
  BY DEF IInv, EnvironmentTyped
<1>2. cli' = Idle /\ cli'.pc = "idle" /\ cli'.queue = {} /\ cli'.writing = {}
  BY DEF RunEnds, Idle
<1>3. CommandTyped'
  BY <1>2 DEF CommandTyped, Idle, Steps, AreSchemas
<1>4. CommandInOrder'
  BY <1>2 DEF CommandInOrder
<1> QED
  BY <1>1, <1>2, <1>3, <1>4 DEF IInv, OnlyFileBeingWrittenIsTorn, RunBegun, OnlySampledFilesWritten,
     ConfigurationRead, PendingKeepsTopLevel, ConfiguredTopLevelKept, EachIsSampled, EachIsWritten, Alone

\* A run begins with nothing in its hands, and remembers the directory.
LEMMA BeginningOfRun ==
    ASSUME IInv, NEW skip \in BOOLEAN, StartUpdate(skip)
    PROVE  IInv'
<1> USE DEF StartUpdate
<1>1. EnvironmentTyped' /\ IsDirectory(files)' /\ RunBegun'
  BY DEF IInv, EnvironmentTyped, environment, RunBegun
<1>2. /\ cli'.pc = (IF skip THEN "read" ELSE "validators") /\ cli'.skipValidators = skip
      /\ cli'.queue = {} /\ cli'.writing = {} /\ cli'.pending = <<>> /\ cli'.existing = <<>>
      /\ DOMAIN cli' = DOMAIN Idle
  BY DEF Idle
<1>3. CommandTyped'
  BY <1>2 DEF CommandTyped, Steps, AreSchemas
<1>4. CommandInOrder'
  BY <1>2 DEF CommandInOrder
<1>5. files' = files /\ before' = files
  OBVIOUS
<1>6. OnlySampledFilesWritten'
  BY <1>5 DEF OnlySampledFilesWritten
<1>7. ConfiguredTopLevelKept'
  BY <1>5 DEF ConfiguredTopLevelKept, KeepsTopLevel, SameShape
<1> QED
  BY <1>1, <1>2, <1>3, <1>4, <1>6, <1>7 DEF IInv, OnlyFileBeingWrittenIsTorn,
     ConfigurationRead, PendingKeepsTopLevel, EachIsSampled, EachIsWritten

\* The validators: what is queued is what is pending, and validators are not skipped.
LEMMA ValidatorsStep ==
    ASSUME IInv, GetMetadataFromValidationSchema
    PROVE  IInv'
<1> USE DEF GetMetadataFromValidationSchema
<1> DEFINE declared == {c \in listed : validator[c] # NoValidator}
<1>1. /\ EnvironmentTyped' /\ IsDirectory(files)' /\ RunBegun'
  BY DEF IInv, EnvironmentTyped, environment, RunBegun, history, CommandTyped, Idle
<1>2. /\ cli'.pc = "writeValidators" /\ cli'.skipValidators = cli.skipValidators
      /\ cli'.queue = declared /\ cli'.writing = cli.writing /\ cli'.existing = cli.existing
      /\ cli'.pending = [c \in declared |-> NewSchema(c, <<c>>, validator[c][2])]
      /\ DOMAIN cli' = DOMAIN Idle
  BY DEF IInv, CommandTyped, Idle
<1>3. AreSchemas(cli'.pending)
  <2>1. declared \subseteq Collections
    BY DEF IInv, EnvironmentTyped
  <2>2. ASSUME NEW c \in declared PROVE IsSchema(NewSchema(c, <<c>>, validator[c][2]))
    BY <2>1, ValidatorTyped, NewTyped DEF IInv
  <2> QED
    BY <1>2, <2>1, <2>2 DEF AreSchemas
<1>4. CommandTyped'
  BY <1>2, <1>3 DEF CommandTyped, Steps, IInv
<1>5. cli.pc = "validators" /\ ~cli.skipValidators /\ cli.queue = {} /\ cli.writing = {}
  BY DEF IInv, CommandInOrder
<1>6. CommandInOrder'
  BY <1>2, <1>5 DEF CommandInOrder
<1> QED
  BY <1>1, <1>2, <1>4, <1>5, <1>6 DEF IInv, OnlyFileBeingWrittenIsTorn, Alone, OnlySampledFilesWritten,
     ConfiguredTopLevelKept, ConfigurationRead, PendingKeepsTopLevel, EachIsSampled, EachIsWritten

\* A file that would not change leaves the queue: it already holds what is pending.
LEMMA SkipStep ==
    ASSUME IInv, NEW c \in Collections, NextToWrite(c),
           files[<<c, "json">>] = Holding(cli.pending[c]),
           cli' = [cli EXCEPT !.queue = @ \ {c}],
           UNCHANGED <<environment, files, updates, changes, history>>
    PROVE  IInv'
<1>1. /\ cli'.pc = cli.pc /\ cli'.skipValidators = cli.skipValidators /\ cli'.existing = cli.existing
      /\ cli'.unsampled = cli.unsampled /\ cli'.pending = cli.pending /\ cli'.writing = cli.writing
      /\ cli'.queue = cli.queue \ {c} /\ DOMAIN cli' = DOMAIN Idle
  BY DEF IInv, CommandTyped, Idle
<1>2. cli.pc \in {"writeValidators", "writeSamples"} /\ cli.writing = {}
  BY DEF NextToWrite
<1>3. /\ files' = files /\ before' = before /\ changed' = changed /\ edited' = edited
      /\ listed' = listed /\ content' = content /\ validator' = validator
  BY DEF environment, history
<1>4. EnvironmentTyped' /\ IsDirectory(files)' /\ RunBegun' /\ CommandTyped' /\ CommandInOrder'
  BY <1>1, <1>2, <1>3 DEF IInv, EnvironmentTyped, RunBegun, CommandTyped, CommandInOrder
<1>5. OnlyFileBeingWrittenIsTorn' /\ OnlySampledFilesWritten' /\ ConfigurationRead'
      /\ PendingKeepsTopLevel' /\ ConfiguredTopLevelKept'
  BY <1>1, <1>3 DEF IInv, Alone, OnlyFileBeingWrittenIsTorn, OnlySampledFilesWritten, ConfigurationRead,
     PendingKeepsTopLevel, ConfiguredTopLevelKept, LostIfStopped
<1>6. EachIsSampled'
  BY <1>1, <1>3 DEF IInv, EachIsSampled, IsSampled, SampledSchema
<1>7. EachIsWritten'
  BY <1>1, <1>3 DEF IInv, EachIsWritten
<1> QED
  BY <1>4, <1>5, <1>6, <1>7 DEF IInv

\* A write begins by tearing its file, which is then the one being written.
LEMMA BeginStep ==
    ASSUME IInv, NEW c \in Collections, NextToWrite(c),
           files' = [files EXCEPT ![<<c, "json">>] = Torn],
           cli' = [cli EXCEPT !.writing = {c}],
           UNCHANGED <<environment, updates, changes, history>>
    PROVE  IInv'
<1>1. /\ cli'.pc = cli.pc /\ cli'.skipValidators = cli.skipValidators /\ cli'.existing = cli.existing
      /\ cli'.unsampled = cli.unsampled /\ cli'.pending = cli.pending /\ cli'.writing = {c}
      /\ cli'.queue = cli.queue /\ DOMAIN cli' = DOMAIN Idle
  BY DEF IInv, CommandTyped, Idle
<1>2. /\ cli.pc \in {"writeValidators", "writeSamples"} /\ cli.writing = {}
      /\ c \in cli.queue /\ c \in DOMAIN cli.pending
  BY DEF NextToWrite, IInv, CommandTyped
<1>3. /\ before' = before /\ changed' = changed /\ edited' = edited
      /\ listed' = listed /\ content' = content /\ validator' = validator
  BY DEF environment, history
<1>4. /\ DOMAIN files' = FileNames
      /\ \A f \in FileNames : files'[f] = IF f = <<c, "json">> THEN Torn ELSE files[f]
  BY DEF IInv, IsDirectory, FileNames, Extensions
<1>5. EnvironmentTyped' /\ IsDirectory(files)' /\ RunBegun' /\ CommandTyped' /\ CommandInOrder'
  BY <1>1, <1>2, <1>3, <1>4 DEF IInv, EnvironmentTyped, RunBegun, CommandTyped, CommandInOrder, IsDirectory, IsFile
<1>6. OnlyFileBeingWrittenIsTorn'
  BY <1>1, <1>2, <1>4 DEF IInv, OnlyFileBeingWrittenIsTorn
<1>7. OnlySampledFilesWritten'
  BY <1>1, <1>2, <1>3, <1>4 DEF IInv, OnlySampledFilesWritten, CommandInOrder
<1>8. ConfiguredTopLevelKept'
  <2> SUFFICES ASSUME Alone, NEW d \in Collections, Holds(before, d)
               PROVE  \/ Holds(files', d) /\ KeepsTopLevel(SchemaIn(before, d), SchemaIn(files', d))
                      \/ LostIfStopped(d)'
    BY <1>1, <1>3 DEF ConfiguredTopLevelKept, Alone, Holds, SchemaIn
  <2>1. CASE d = c
    <3>1. cli.pc = "writeSamples"
      BY <1>2 DEF IInv, CommandInOrder, Alone
    <3>2. KeepsTopLevel(SchemaIn(before, c), cli.pending[c])
      BY <2>1, <3>1, <1>2 DEF IInv, PendingKeepsTopLevel
    <3>3. files'[<<c, "json">>] = Torn
      BY <1>4 DEF FileNames, Extensions
    <3> QED
      BY <2>1, <3>2, <3>3, <1>1, <1>3 DEF LostIfStopped, SchemaIn
  <2>2. CASE d # c
    <3>1. files'[<<d, "json">>] = files[<<d, "json">>]
      BY <2>2, <1>4 DEF FileNames, Extensions
    <3>2. ~LostIfStopped(d)
      BY <1>2 DEF LostIfStopped
    <3> QED
      BY <3>1, <3>2 DEF IInv, ConfiguredTopLevelKept, Alone, Holds, SchemaIn
  <2> QED
    BY <2>1, <2>2
<1>9. ConfigurationRead' /\ PendingKeepsTopLevel'
  BY <1>1, <1>3 DEF IInv, Alone, ConfigurationRead, PendingKeepsTopLevel
<1>10. EachIsSampled'
  BY <1>1, <1>3 DEF IInv, EachIsSampled, IsSampled, SampledSchema
<1>11. EachIsWritten'
  <2>1. \A d \in DOMAIN cli.pending \ cli.queue : files'[<<d, "json">>] = files[<<d, "json">>]
    BY <1>2, <1>4 DEF IInv, CommandTyped, AreSchemas, FileNames, Extensions
  <2> QED
    BY <2>1, <1>1, <1>3 DEF IInv, EachIsWritten
<1> QED
  BY <1>5, <1>6, <1>7, <1>8, <1>9, <1>10, <1>11 DEF IInv

\* A write ends with the pending schema, which keeps the top level of what was there.
LEMMA EndStep ==
    ASSUME IInv, NEW c \in cli.writing,
           files' = [files EXCEPT ![<<c, "json">>] = Holding(cli.pending[c])],
           cli' = [cli EXCEPT !.writing = {}, !.queue = @ \ {c}],
           UNCHANGED <<environment, updates, changes, history>>
    PROVE  IInv'
<1>1. /\ cli'.pc = cli.pc /\ cli'.skipValidators = cli.skipValidators /\ cli'.existing = cli.existing
      /\ cli'.unsampled = cli.unsampled /\ cli'.pending = cli.pending /\ cli'.writing = {}
      /\ cli'.queue = cli.queue \ {c} /\ DOMAIN cli' = DOMAIN Idle
  BY DEF IInv, CommandTyped, Idle
<1>2. /\ cli.pc \in {"writeValidators", "writeSamples"} /\ \A d \in cli.writing : d = c
      /\ c \in cli.queue /\ c \in DOMAIN cli.pending /\ c \in Collections
      /\ IsSchema(cli.pending[c])
  BY DEF IInv, CommandTyped, CommandInOrder, AreSchemas
<1>3. /\ before' = before /\ changed' = changed /\ edited' = edited
      /\ listed' = listed /\ content' = content /\ validator' = validator
  BY DEF environment, history
<1>4. /\ DOMAIN files' = FileNames /\ <<c, "json">> \in FileNames
      /\ \A f \in FileNames : files'[f] = IF f = <<c, "json">> THEN Holding(cli.pending[c]) ELSE files[f]
  BY <1>2 DEF IInv, IsDirectory, FileNames, Extensions
<1>5. IsFile(Holding(cli.pending[c]))
  BY <1>2 DEF IsFile, Holding
<1>6. EnvironmentTyped' /\ IsDirectory(files)' /\ RunBegun' /\ CommandTyped' /\ CommandInOrder'
  BY <1>1, <1>2, <1>3, <1>4, <1>5 DEF IInv, EnvironmentTyped, RunBegun, CommandTyped, CommandInOrder, IsDirectory
<1>7. OnlyFileBeingWrittenIsTorn'
  BY <1>1, <1>2, <1>4 DEF IInv, OnlyFileBeingWrittenIsTorn, Holding, Torn, FileNames
<1>8. OnlySampledFilesWritten'
  BY <1>1, <1>2, <1>3, <1>4 DEF IInv, OnlySampledFilesWritten, CommandInOrder
<1>9. ConfigurationRead' /\ PendingKeepsTopLevel'
  BY <1>1, <1>3 DEF IInv, Alone, ConfigurationRead, PendingKeepsTopLevel
<1>10. ConfiguredTopLevelKept'
  <2> SUFFICES ASSUME Alone, NEW d \in Collections, Holds(before, d)
               PROVE  Holds(files', d) /\ KeepsTopLevel(SchemaIn(before, d), SchemaIn(files', d))
    BY <1>1, <1>3 DEF ConfiguredTopLevelKept, Alone, Holds, SchemaIn
  <2>1. CASE d = c
    <3>1. Holds(files', d) /\ SchemaIn(files', d) = cli.pending[c]
      BY <2>1, <1>4 DEF Holds, SchemaIn, Holding
    <3>2. cli.pc = "writeSamples"
      BY <1>2 DEF IInv, CommandInOrder, Alone
    <3> QED
      BY <2>1, <3>1, <3>2, <1>2 DEF IInv, PendingKeepsTopLevel
  <2>2. CASE d # c
    <3>1. files'[<<d, "json">>] = files[<<d, "json">>]
      BY <2>2, <1>4 DEF FileNames, Extensions
    <3>2. ~LostIfStopped(d)
      BY <2>2 DEF LostIfStopped
    <3> QED
      BY <3>1, <3>2 DEF IInv, ConfiguredTopLevelKept, Alone, Holds, SchemaIn
  <2> QED
    BY <2>1, <2>2
<1>11. EachIsSampled'
  BY <1>1, <1>3 DEF IInv, EachIsSampled, IsSampled, SampledSchema
<1>12. EachIsWritten'
  <2>1. \A d \in DOMAIN cli.pending : d # c => files'[<<d, "json">>] = files[<<d, "json">>]
    BY <1>4 DEF IInv, CommandTyped, AreSchemas, FileNames, Extensions
  <2>2. files'[<<c, "json">>] = Holding(cli.pending[c])
    BY <1>4
  <2> QED
    BY <2>1, <2>2, <1>1, <1>3 DEF IInv, EachIsWritten
<1> QED
  BY <1>6, <1>7, <1>8, <1>9, <1>10, <1>11, <1>12 DEF IInv

\* When the validator schemas are written the command has nothing in its hands.
LEMMA ValidatorsWrittenStep ==
    ASSUME IInv, ValidatorsWritten
    PROVE  IInv'
<1> USE DEF ValidatorsWritten
<1>1. /\ cli'.pc = "read" /\ cli'.skipValidators = cli.skipValidators /\ cli'.existing = cli.existing
      /\ cli'.pending = <<>> /\ cli'.writing = cli.writing
      /\ cli'.queue = cli.queue /\ DOMAIN cli' = DOMAIN Idle
  BY DEF IInv, CommandTyped, Idle
<1>2. cli.pc = "writeValidators" /\ cli.queue = {} /\ ~cli.skipValidators
  BY DEF IInv, CommandInOrder
<1>3. /\ files' = files /\ before' = before /\ changed' = changed /\ edited' = edited
      /\ listed' = listed /\ content' = content /\ validator' = validator
  BY DEF environment, history
<1>4. EnvironmentTyped' /\ IsDirectory(files)' /\ RunBegun'
  BY <1>1, <1>2, <1>3 DEF IInv, EnvironmentTyped, RunBegun
<1>5. CommandTyped' /\ CommandInOrder'
  BY <1>1, <1>2 DEF IInv, CommandTyped, CommandInOrder, AreSchemas, Steps
<1> QED
  BY <1>1, <1>2, <1>4, <1>5 DEF IInv, OnlyFileBeingWrittenIsTorn, Alone, OnlySampledFilesWritten,
     ConfigurationRead, PendingKeepsTopLevel, ConfiguredTopLevelKept, EachIsSampled, EachIsWritten

\* The existing schemas are read from a directory without a torn file; without validators it
\* is the one the run began with.
LEMMA ReadStep ==
    ASSUME IInv, ReadExistingSchemas
    PROVE  IInv'
<1> USE DEF ReadExistingSchemas
<1>1. /\ cli'.pc = "list" /\ cli'.skipValidators = cli.skipValidators /\ cli'.existing = Configured(files)
      /\ cli'.pending = cli.pending /\ cli'.writing = cli.writing
      /\ cli'.queue = cli.queue /\ DOMAIN cli' = DOMAIN Idle
  BY DEF IInv, CommandTyped, Idle
<1>2. cli.pc = "read" /\ cli.queue = {} /\ cli.writing = {} /\ DOMAIN cli.pending = {}
  BY DEF IInv, CommandInOrder
<1>3. /\ files' = files /\ before' = before /\ changed' = changed /\ edited' = edited
      /\ listed' = listed /\ content' = content /\ validator' = validator
  BY DEF environment, history
<1>4. /\ AreSchemas(Configured(files))
      /\ \A c \in Collections : Holds(files, c) =>
            c \in DOMAIN Configured(files) /\ Configured(files)[c] = SchemaIn(files, c)
  BY ConfiguredSound DEF IInv
<1>5. EnvironmentTyped' /\ IsDirectory(files)' /\ RunBegun'
  BY <1>1, <1>2, <1>3 DEF IInv, EnvironmentTyped, RunBegun
<1>6. CommandTyped' /\ CommandInOrder'
  BY <1>1, <1>2, <1>4 DEF IInv, CommandTyped, CommandInOrder, Steps
<1>7. OnlyFileBeingWrittenIsTorn'
  BY <1>1, <1>3 DEF OnlyFileBeingWrittenIsTorn, Readable
<1>8. OnlySampledFilesWritten' /\ ConfiguredTopLevelKept'
  BY <1>1, <1>2, <1>3 DEF IInv, OnlySampledFilesWritten, ConfiguredTopLevelKept, LostIfStopped
<1>9. ConfigurationRead'
  <2> SUFFICES ASSUME Alone, NEW c \in Collections, Holds(before, c)
               PROVE  c \in DOMAIN Configured(files) /\ Configured(files)[c] = SchemaIn(before, c)
    BY <1>1, <1>2, <1>3 DEF ConfigurationRead, Alone
  <2>1. files[<<c, "json">>] = before[<<c, "json">>]
    BY <1>2 DEF IInv, OnlySampledFilesWritten, Alone, FileNames, Extensions
  <2> QED
    BY <2>1, <1>4 DEF Holds, SchemaIn
<1> QED
  BY <1>1, <1>5, <1>6, <1>7, <1>8, <1>9 DEF IInv, PendingKeepsTopLevel, EachIsSampled, EachIsWritten

\* Listing the collections fills the cursor with all that may be sampled.
LEMMA ListStep ==
    ASSUME IInv, ListCollections
    PROVE  IInv'
<1> USE DEF ListCollections
<1>1. /\ cli'.pc = "sample" /\ cli'.skipValidators = cli.skipValidators /\ cli'.existing = cli.existing
      /\ cli'.unsampled = listed /\ cli'.pending = cli.pending /\ cli'.writing = cli.writing
      /\ cli'.queue = cli.queue /\ DOMAIN cli' = DOMAIN Idle
  BY DEF IInv, CommandTyped, Idle
<1>2. cli.pc = "list" /\ cli.queue = {} /\ cli.writing = {} /\ DOMAIN cli.pending = {}
  BY DEF IInv, CommandInOrder
<1>3. /\ files' = files /\ before' = before /\ changed' = changed /\ edited' = edited
      /\ listed' = listed /\ content' = content /\ validator' = validator
  BY DEF environment, history
<1>4. EnvironmentTyped' /\ IsDirectory(files)' /\ RunBegun'
  BY <1>1, <1>2, <1>3 DEF IInv, EnvironmentTyped, RunBegun
<1>5. CommandTyped' /\ CommandInOrder'
  BY <1>1, <1>2 DEF IInv, CommandTyped, CommandInOrder, Steps
<1>6. OnlyFileBeingWrittenIsTorn' /\ OnlySampledFilesWritten' /\ ConfiguredTopLevelKept' /\ ConfigurationRead'
  BY <1>1, <1>2, <1>3 DEF IInv, Alone, OnlyFileBeingWrittenIsTorn, OnlySampledFilesWritten,
     ConfiguredTopLevelKept, LostIfStopped, ConfigurationRead
<1>7. EachIsSampled'
  BY <1>1, <1>2, <1>3 DEF EachIsSampled, IsSampled
<1> QED
  BY <1>1, <1>2, <1>4, <1>5, <1>6, <1>7 DEF IInv, PendingKeepsTopLevel, EachIsWritten

\* A turn of the loop adds at most the schema of its collection, which keeps the top level of
\* the one that was read, and only if the collection is there, not under system. and has a sample.
LEMMA SampleStep ==
    ASSUME IInv, NEW c \in Collections, SampleCollection(c)
    PROVE  IInv'
<1> USE DEF SampleCollection
<1> DEFINE Derived == SampledSchema(c, content[c][2])
<1>1. /\ cli'.pc = "sample" /\ cli'.skipValidators = cli.skipValidators /\ cli'.existing = cli.existing
      /\ cli'.unsampled = cli.unsampled \ {c} /\ cli'.writing = cli.writing
      /\ cli'.queue = cli.queue /\ DOMAIN cli' = DOMAIN Idle
  BY DEF IInv, CommandTyped, Idle
<1>2. cli.pc = "sample" /\ cli.queue = {} /\ cli.writing = {} /\ DOMAIN cli.pending \cap System = {}
  BY DEF IInv, CommandInOrder
<1>3. /\ files' = files /\ before' = before /\ changed' = changed /\ edited' = edited
      /\ listed' = listed /\ content' = content /\ validator' = validator
  BY DEF environment, history
<1>4. \/ /\ IsSampled(c)
         /\ cli'.pending = [d \in DOMAIN cli.pending \cup {c} |-> IF d = c THEN Derived ELSE cli.pending[d]]
      \/ ~IsSampled(c) /\ cli'.pending = cli.pending
  BY DEF IInv, CommandTyped, Idle, IsSampled
<1> HIDE DEF SampleCollection
<1>5. IsSampled(c) =>
        /\ IsSchema(Derived)
        /\ c \in DOMAIN cli.existing => KeepsTopLevel(cli.existing[c], Derived)
  BY SampleTyped, SampledSound DEF IInv, CommandTyped, IsSampled
<1>6. /\ DOMAIN cli'.pending \subseteq DOMAIN cli.pending \cup {c}
      /\ \A d \in DOMAIN cli'.pending :
            \/ d = c /\ IsSampled(c) /\ cli'.pending[d] = Derived
            \/ d \in DOMAIN cli.pending /\ cli'.pending[d] = cli.pending[d]
      /\ DOMAIN cli.pending \subseteq DOMAIN cli'.pending
      /\ IsSampled(c) => c \in DOMAIN cli'.pending
  BY <1>4
<1> HIDE DEF Derived
<1>7. EnvironmentTyped' /\ IsDirectory(files)' /\ RunBegun'
  BY <1>1, <1>2, <1>3 DEF IInv, EnvironmentTyped, RunBegun
<1>8. CommandTyped'
  <2>1. AreSchemas(cli'.pending)
    BY <1>5, <1>6 DEF IInv, CommandTyped, AreSchemas
  <2> QED
    BY <1>1, <1>2, <2>1 DEF IInv, CommandTyped, Steps
<1>9. CommandInOrder'
  BY <1>1, <1>2, <1>6 DEF CommandInOrder, IsSampled
<1>10. OnlyFileBeingWrittenIsTorn' /\ OnlySampledFilesWritten' /\ ConfiguredTopLevelKept' /\ ConfigurationRead'
  BY <1>1, <1>2, <1>3 DEF IInv, Alone, OnlyFileBeingWrittenIsTorn, OnlySampledFilesWritten,
     ConfiguredTopLevelKept, LostIfStopped, ConfigurationRead
<1>11. PendingKeepsTopLevel'
  <2> SUFFICES ASSUME Alone, NEW d \in DOMAIN cli'.pending, Holds(before, d)
               PROVE  KeepsTopLevel(SchemaIn(before, d), cli'.pending[d])
    BY <1>1, <1>2, <1>3 DEF PendingKeepsTopLevel, Alone
  <2>1. CASE d = c /\ IsSampled(c) /\ cli'.pending[d] = Derived
    BY <2>1, <1>2, <1>5 DEF IInv, ConfigurationRead
  <2>2. CASE d \in DOMAIN cli.pending /\ cli'.pending[d] = cli.pending[d]
    BY <2>2, <1>2 DEF IInv, PendingKeepsTopLevel
  <2> QED
    BY <2>1, <2>2, <1>6
<1>12. EachIsSampled'
  <2> SUFFICES ASSUME ~changed
               PROVE  /\ \A d \in Collections :
                            IsSampled(d) => d \in cli.unsampled \ {c} \/ d \in DOMAIN cli'.pending
                      /\ \A d \in DOMAIN cli'.pending :
                            IsSampled(d) /\ cli'.pending[d] = SampledSchema(d, content[d][2])
    BY <1>1, <1>3 DEF EachIsSampled, IsSampled, SampledSchema
  <2>1. /\ \A d \in Collections : IsSampled(d) => d \in cli.unsampled \/ d \in DOMAIN cli.pending
        /\ \A d \in DOMAIN cli.pending :
                IsSampled(d) /\ cli.pending[d] = SampledSchema(d, content[d][2])
    BY <1>2 DEF IInv, EachIsSampled
  <2>2. \A d \in Collections : IsSampled(d) => d \in cli.unsampled \ {c} \/ d \in DOMAIN cli'.pending
    BY <2>1, <1>6
  <2>3. \A d \in DOMAIN cli'.pending :
                IsSampled(d) /\ cli'.pending[d] = SampledSchema(d, content[d][2])
    BY <2>1, <1>6 DEF Derived
  <2> QED
    BY <2>2, <2>3
<1> QED
  BY <1>1, <1>7, <1>8, <1>9, <1>10, <1>11, <1>12 DEF IInv, EachIsWritten

\* When the cursor is at its end, what is pending is queued.
LEMMA AllSampledStep ==
    ASSUME IInv, AllSampled
    PROVE  IInv'
<1> USE DEF AllSampled
<1>1. /\ cli'.pc = "writeSamples" /\ cli'.skipValidators = cli.skipValidators /\ cli'.existing = cli.existing
      /\ cli'.unsampled = {} /\ cli'.pending = cli.pending /\ cli'.writing = cli.writing
      /\ cli'.queue = DOMAIN cli.pending /\ DOMAIN cli' = DOMAIN Idle
  BY DEF IInv, CommandTyped, Idle
<1>2. cli.pc = "sample" /\ cli.unsampled = {} /\ cli.writing = {} /\ DOMAIN cli.pending \cap System = {}
  BY DEF IInv, CommandInOrder
<1>3. /\ files' = files /\ before' = before /\ changed' = changed /\ edited' = edited
      /\ listed' = listed /\ content' = content /\ validator' = validator
  BY DEF environment, history
<1>4. EnvironmentTyped' /\ IsDirectory(files)' /\ RunBegun'
  BY <1>1, <1>2, <1>3 DEF IInv, EnvironmentTyped, RunBegun
<1>5. CommandTyped' /\ CommandInOrder'
  BY <1>1, <1>2 DEF IInv, CommandTyped, CommandInOrder, Steps
<1>6. /\ OnlyFileBeingWrittenIsTorn' /\ OnlySampledFilesWritten' /\ ConfiguredTopLevelKept'
      /\ ConfigurationRead' /\ PendingKeepsTopLevel'
  BY <1>1, <1>2, <1>3 DEF IInv, Alone, OnlyFileBeingWrittenIsTorn, OnlySampledFilesWritten,
     ConfiguredTopLevelKept, LostIfStopped, ConfigurationRead, PendingKeepsTopLevel
<1>7. EachIsSampled' /\ EachIsWritten'
  BY <1>1, <1>2, <1>3 DEF IInv, EachIsSampled, EachIsWritten, IsSampled, SampledSchema
<1> QED
  BY <1>4, <1>5, <1>6, <1>7 DEF IInv

\* A change of the database does not touch the files, nor what the command has read of them.
LEMMA DatabaseStep ==
    ASSUME IInv, NEW c \in Collections, DatabaseChanges(c)
    PROVE  IInv'
<1>1. /\ files' = files /\ cli' = cli /\ before' = before /\ edited' = edited
      /\ changed' = (cli.pc # "idle")
  BY DEF DatabaseChanges, Change
<1>2. EnvironmentTyped'
  <2>1. CASE /\ listed' = IF c \in listed THEN listed \ {c} ELSE listed \cup {c}
             /\ UNCHANGED <<content, validator>>
    BY <2>1 DEF IInv, EnvironmentTyped
  <2>2. CASE /\ \E x \in {NoSample} \cup {Yielding(s) : s \in Samples} : content' = [content EXCEPT ![c] = x]
             /\ UNCHANGED <<listed, validator>>
    BY <2>2 DEF IInv, EnvironmentTyped, Samplings
  <2>3. CASE /\ \E v \in {NoValidator, Malformed} \cup {Declaring(v) : v \in Validators} :
                    validator' = [validator EXCEPT ![c] = v]
             /\ UNCHANGED <<listed, content>>
    BY <2>3 DEF IInv, EnvironmentTyped, Validation
  <2> QED
    BY <2>1, <2>2, <2>3 DEF DatabaseChanges
<1>3. IsDirectory(files)' /\ CommandTyped' /\ CommandInOrder' /\ RunBegun'
  BY <1>1 DEF IInv, CommandTyped, CommandInOrder, RunBegun
<1>4. /\ OnlyFileBeingWrittenIsTorn' /\ OnlySampledFilesWritten' /\ ConfiguredTopLevelKept'
      /\ ConfigurationRead' /\ PendingKeepsTopLevel'
  BY <1>1 DEF IInv, Alone, OnlyFileBeingWrittenIsTorn, OnlySampledFilesWritten,
     ConfiguredTopLevelKept, LostIfStopped, ConfigurationRead, PendingKeepsTopLevel
<1>5. EachIsSampled' /\ EachIsWritten'
  BY <1>1 DEF EachIsSampled, EachIsWritten
<1> QED
  BY <1>2, <1>3, <1>4, <1>5 DEF IInv

\* A user who edits the files leaves none torn that was not, and is noticed by the history.
LEMMA UserStep ==
    ASSUME IInv, NEW c \in Collections, UserEdits(c)
    PROVE  IInv'
<1>1. /\ cli' = cli /\ before' = before /\ cli.writing = {}
      /\ listed' = listed /\ content' = content /\ validator' = validator
      /\ edited' = (cli.pc # "idle") /\ changed' = (cli.pc # "idle")
  BY DEF UserEdits, Change, environment
<1>2. \A e \in Extensions : <<c, e>> \in FileNames
  BY DEF FileNames
<1>3. /\ DOMAIN files' = FileNames
      /\ \A f \in FileNames : IsFile(files'[f]) /\ (files'[f] = Torn => files[f] = Torn)
  <2>1. CASE \E s \in UserSchemas(c), e \in Extensions : files' = [files EXCEPT ![<<c, e>>] = Holding(s)]
    <3>1. PICK s \in UserSchemas(c), e \in Extensions : files' = [files EXCEPT ![<<c, e>>] = Holding(s)]
      BY <2>1
    <3>2. IsFile(Holding(s)) /\ Holding(s) # Torn
      BY UserAssumption DEF IsFile, Holding, Torn
    <3> QED
      BY <3>1, <3>2, <1>2 DEF IInv, IsDirectory
  <2>2. CASE \E e \in Extensions, x \in {Absent, Several} : files' = [files EXCEPT ![<<c, e>>] = x]
    <3>1. PICK e \in Extensions, x \in {Absent, Several} : files' = [files EXCEPT ![<<c, e>>] = x]
      BY <2>2
    <3>2. IsFile(x) /\ x # Torn
      BY DEF IsFile, Absent, Several, Torn
    <3> QED
      BY <3>1, <3>2, <1>2 DEF IInv, IsDirectory
  <2>3. CASE /\ files[<<c, "json">>][1] = "schema"
             /\ files' = [files EXCEPT ![<<c, "yaml">>] = files[<<c, "json">>], ![<<c, "json">>] = Absent]
    <3> DEFINE moved == files[<<c, "json">>]
    <3>1. IsFile(moved) /\ moved # Torn /\ IsFile(Absent) /\ Absent # Torn
      BY <2>3, <1>2 DEF IInv, IsDirectory, IsFile, Absent, Torn, Extensions
    <3>2. /\ DOMAIN files' = FileNames
          /\ \A f \in FileNames : files'[f] \in {moved, Absent, files[f]}
      BY <2>3, <1>2 DEF IInv, IsDirectory, Extensions
    <3> QED
      BY <3>1, <3>2 DEF IInv, IsDirectory
  <2> QED
    BY <2>1, <2>2, <2>3 DEF UserEdits
<1>4. IsDirectory(files)'
  BY <1>3 DEF IsDirectory
<1>5. EnvironmentTyped' /\ CommandTyped' /\ CommandInOrder' /\ RunBegun'
  BY <1>1 DEF IInv, EnvironmentTyped, CommandTyped, CommandInOrder, RunBegun
<1>6. OnlyFileBeingWrittenIsTorn'
  BY <1>1, <1>3 DEF IInv, OnlyFileBeingWrittenIsTorn
<1>7. /\ OnlySampledFilesWritten' /\ ConfiguredTopLevelKept'
      /\ ConfigurationRead' /\ PendingKeepsTopLevel' /\ EachIsSampled' /\ EachIsWritten'
  BY <1>1 DEF OnlySampledFilesWritten, ConfiguredTopLevelKept, ConfigurationRead, PendingKeepsTopLevel,
     EachIsSampled, EachIsWritten, Alone
<1> QED
  BY <1>4, <1>5, <1>6, <1>7 DEF IInv

\* Each step keeps the invariant, whoever takes it.
LEMMA NextSound == IInv /\ [Next]_vars => IInv'
<1> SUFFICES ASSUME IInv, [Next]_vars PROVE IInv'
  OBVIOUS
<1> USE DEF Next, Step
<1>1. ASSUME NEW skip \in BOOLEAN, StartUpdate(skip) PROVE IInv'
  BY <1>1, BeginningOfRun
<1>2. CASE GetMetadataFromValidationSchema
  BY <1>2, ValidatorsStep
<1>3. CASE BadCollectionSchema \/ UnreadableDirectory \/ WriteFails \/ UpdateDone \/ Crash
  BY <1>3, EndOfRun DEF BadCollectionSchema, UnreadableDirectory, WriteFails, Fail, UpdateDone, Crash, environment
<1>4. CASE SkipUnchangedFile
  BY <1>4, SkipStep DEF SkipUnchangedFile
<1>5. CASE BeginWriteFile
  BY <1>5, BeginStep DEF BeginWriteFile
<1>6. CASE EndWriteFile
  BY <1>6, EndStep DEF EndWriteFile
<1>7. CASE ValidatorsWritten
  BY <1>7, ValidatorsWrittenStep
<1>8. CASE ReadExistingSchemas
  BY <1>8, ReadStep
<1>9. CASE ListCollections
  BY <1>9, ListStep
<1>10. ASSUME NEW c \in Collections, SampleCollection(c) PROVE IInv'
  BY <1>10, SampleStep
<1>11. CASE AllSampled
  BY <1>11, AllSampledStep
<1>12. ASSUME NEW c \in Collections, DatabaseChanges(c) PROVE IInv'
  BY <1>12, DatabaseStep
<1>13. ASSUME NEW c \in Collections, UserEdits(c) PROVE IInv'
  BY <1>13, UserStep
<1>14. CASE UNCHANGED vars
  <2>1. /\ cli' = cli /\ files' = files /\ before' = before /\ changed' = changed /\ edited' = edited
        /\ listed' = listed /\ content' = content /\ validator' = validator
    BY <1>14 DEF vars
  <2>2. EnvironmentTyped' /\ IsDirectory(files)' /\ CommandTyped' /\ CommandInOrder' /\ RunBegun'
    BY <2>1 DEF IInv, EnvironmentTyped, CommandTyped, CommandInOrder, RunBegun
  <2>3. /\ OnlyFileBeingWrittenIsTorn' /\ OnlySampledFilesWritten' /\ ConfiguredTopLevelKept'
        /\ ConfigurationRead' /\ PendingKeepsTopLevel'
    BY <2>1 DEF IInv, Alone, OnlyFileBeingWrittenIsTorn, OnlySampledFilesWritten,
       ConfiguredTopLevelKept, LostIfStopped, ConfigurationRead, PendingKeepsTopLevel
  <2>4. EachIsSampled' /\ EachIsWritten'
    BY <2>1 DEF IInv, EachIsSampled, EachIsWritten, IsSampled, SampledSchema
  <2> QED
    BY <2>2, <2>3, <2>4 DEF IInv
<1> QED
  BY <1>1, <1>2, <1>3, <1>4, <1>5, <1>6, <1>7, <1>8, <1>9, <1>10, <1>11, <1>12, <1>13, <1>14

------------------------------------------------------------------------------
\* The theorems.

\* The inductive invariant: every file holds a schema or is torn in a way the command knows
\* of, and what the command has read and derived agrees with the files and the database for
\* as long as nobody interferes.
THEOREM UpdateSound == Spec => []IInv
BY InitSound, NextSound, PTL DEF Spec

\* Nothing is derived from a directory with a torn file: while the database is sampled and
\* the schemas are written, the only torn file is the one being written.
THEOREM TornIsBeingWritten == Spec => []OnlyFileBeingWrittenIsTorn
<1>1. IInv => OnlyFileBeingWrittenIsTorn
  BY DEF IInv
<1> QED
  BY <1>1, UpdateSound, PTL

\* A run without validators writes only the files of collections it has a sample of, and
\* only after the whole database was sampled.
THEOREM OnlySampledWritten == Spec => []OnlySampledFilesWritten
<1>1. IInv => OnlySampledFilesWritten
  BY DEF IInv
<1> QED
  BY <1>1, UpdateSound, PTL

\* Wherever a run without validators stops, what was configured at the top level of a
\* collection is still configured, but for one collection at most: the one whose file is
\* being written, which is torn then.  What is lost with it is in the schema to be written.
THEOREM TopLevelKept == Spec => []ConfiguredTopLevelKept
<1>1. IInv => ConfiguredTopLevelKept
  BY DEF IInv
<1> QED
  BY <1>1, UpdateSound, PTL

\* An undisturbed run configures every field of the samples' top level.
THEOREM FieldsAdded == Spec => []SampledFieldsAdded
<1>1. IInv => SampledFieldsAdded
  <2> SUFFICES ASSUME IInv, Undisturbed, NEW c \in Collections, IsSampled(c)
               PROVE  /\ Holds(files, c)
                      /\ DOMAIN TopFields([SchemaIn(files, c) EXCEPT !.types = Updated(c)])
                            \subseteq DOMAIN TopFields(SchemaIn(files, c))
    BY DEF SampledFieldsAdded
  <2> DEFINE types == content[c][2]
             s == SampledSchema(c, types)
  <2>1. c \in DOMAIN cli.pending /\ cli.pending[c] = s
    BY DEF IInv, EachIsSampled, Undisturbed
  <2>2. files[<<c, "json">>] = Holding(s)
    BY <2>1 DEF IInv, EachIsWritten, Undisturbed
  <2>3. IsRelative(types)
    BY SampleTyped DEF IInv, IsSampled
  <2> HIDE DEF types
  <2>4. DOMAIN TopFields([s EXCEPT !.types = Rooted(s.type, types)]) \subseteq DOMAIN TopFields(s)
    BY <2>3, SampledSound DEF IInv, CommandTyped
  <2> HIDE DEF s
  <2>5. Holds(files, c) /\ SchemaIn(files, c) = s
    BY <2>2 DEF Holds, SchemaIn, Holding
  <2>6. Updated(c) = Rooted(s.type, types)
    BY <2>5 DEF Updated, types
  <2> QED
    BY <2>4, <2>5, <2>6
<1> QED
  BY <1>1, UpdateSound, PTL

-----------------------------------------------------------------------------
(***************************************************************************)
(* Re-introspection settles: without validators, over an unchanged         *)
(* database, every run of the update command goes one level of nested      *)
(* object types deeper, and once there are no more levels a run writes     *)
(* nothing.                                                                *)
(*                                                                         *)
(* The argument is about one collection: what a number of runs of the      *)
(* merge have settled of its schema (Settled), and that one more run       *)
(* settles one more level (MergeSettles) until the merge changes nothing   *)
(* (SettledIsFixed).  The invariant carries it through the steps of a run. *)
(***************************************************************************)

\* An object type sampling yields: records in full, not described
IsSampledType(o) ==
    /\ o = [desc |-> NoDescription, fields |-> o.fields]
    /\ o.fields = [f \in DOMAIN o.fields |-> o.fields[f]]
    /\ \A f \in DOMAIN o.fields :
            LET t == o.fields[f].type
            IN  o.fields[f] = [type |-> t, desc |-> o.fields[f].desc] /\ t = [wrap |-> t.wrap, base |-> t.base]

\* What sampling yields for a collection whose object type is named root
IsUpdate(U, root) ==
    /\ root \in DOMAIN U /\ IsObjectTypes(U)
    /\ U = [n \in DOMAIN U |-> U[n]]
    /\ \A n \in DOMAIN U :
            /\ n # root => Len(n) > Len(root)
            /\ IsSampledType(U[n])
            /\ \A f \in DOMAIN U[n].fields : RefersToObject(U[n].fields[f].type) =>
                    /\ ObjectNameOf(U[n].fields[f].type) \in DOMAIN U
                    /\ Len(ObjectNameOf(U[n].fields[f].type)) > Len(n)

\* The object type has the fields of the sampled one, of types the merge leaves alone
FieldsSettled(old, new) ==
    /\ DOMAIN new.fields \subseteq DOMAIN old.fields
    /\ \A f \in DOMAIN new.fields :
            ReconcileTypes(old.fields[f].type, new.fields[f].type) = old.fields[f].type

\* What k runs over the same sample have settled of the schema s: the object types it visits
\* that are less than k levels deep are defined, those it defines have settled fields, and
\* from the second run on it defines only those it visits, and the merge keeps them.
Settled(s, U, k) ==
    k >= 1 =>
        /\ s = [type |-> s.type, desc |-> s.desc, types |-> s.types]
        /\ s.types = [n \in DOMAIN s.types |-> s.types[n]]
        /\ \A n \in Visited(s.types, U, s.type) : Len(n) < Len(s.type) + k => n \in DOMAIN s.types
        /\ \A n \in DOMAIN s.types \cap DOMAIN U : FieldsSettled(s.types[n], U[n])
        /\ k >= 2 => \A n \in DOMAIN s.types :
                /\ n \in Visited(s.types, U, s.type)
                /\ BackwardCompatibleObjectType(s.types[n], U[n]) = s.types[n]

------------------------------------------------------------------------------
\* What sampling yields.

\* A field that is given another type.
LEMMA OtherType ==
    ASSUME NEW f, DOMAIN f = {"type", "desc"}, NEW t
    PROVE  [f EXCEPT !.type = t] = [type |-> t, desc |-> f.desc]
OBVIOUS

\* The object types of a sample, named after the one of the collection, are an update.
LEMMA RootedSample ==
    ASSUME NEW root \in Seq(STRING), NEW types, IsSample(types)
    PROVE  IsUpdate(Rooted(root, types), root)
<1> DEFINE names == {root \o p : p \in DOMAIN types}
           Relative(n) == SubSeq(n, Len(root) + 1, Len(n))
           Absolute(t) == IF RefersToObject(t) THEN Object(root \o ObjectNameOf(t)).base ELSE t.base
           U == Rooted(root, types)
<1>1. /\ U = [n \in names |-> U[n]]
      /\ \A n \in names : U[n] =
            [desc   |-> types[Relative(n)].desc,
             fields |-> [f \in DOMAIN types[Relative(n)].fields |->
                            [types[Relative(n)].fields[f] EXCEPT
                                !.type.base = Absolute(types[Relative(n)].fields[f].type)]]]
  BY DEF Rooted
<1>2. root \in DOMAIN U /\ IsObjectTypes(U)
  BY RootedTyped DEF IsSample
<1>3. ASSUME NEW n \in names
      PROVE  /\ n # root => Len(n) > Len(root)
             /\ IsSampledType(U[n])
             /\ \A f \in DOMAIN U[n].fields : RefersToObject(U[n].fields[f].type) =>
                    /\ ObjectNameOf(U[n].fields[f].type) \in names
                    /\ Len(ObjectNameOf(U[n].fields[f].type)) > Len(n)
  <2>1. PICK p \in DOMAIN types : n = root \o p
    OBVIOUS
  <2>2. p \in Seq(STRING) /\ n \in Seq(STRING) /\ Relative(n) = p
    BY <2>1, PathOfName DEF IsSample, IsRelative, IsObjectTypes
  <2>3. /\ types[p].desc = NoDescription
        /\ \A f \in DOMAIN types[p].fields :
             /\ IsField(types[p].fields[f])
             /\ LET t == types[p].fields[f].type
                IN  RefersToObject(t) => ObjectNameOf(t) \in DOMAIN types /\ Len(ObjectNameOf(t)) > Len(p)
    BY DEF IsSample, IsRelative, IsObjectTypes
  <2> DEFINE At(f) == [types[p].fields[f] EXCEPT !.type.base = Absolute(types[p].fields[f].type)]
             fields == [f \in DOMAIN types[p].fields |-> At(f)]
  <2>4. U[n] = [desc |-> NoDescription, fields |-> fields]
    BY <1>1, <2>2, <2>3
  <2>5. n # root => Len(n) > Len(root)
    <3>1. n # root => p # <<>>
      BY <2>1
    <3>2. p # <<>> => Len(p) > 0
      BY <2>2
    <3> QED
      BY <2>1, <2>2, <3>1, <3>2
  <2>6. ASSUME NEW f \in DOMAIN types[p].fields
        PROVE  LET t == At(f).type
               IN  /\ At(f) = [type |-> t, desc |-> At(f).desc]
                   /\ t = [wrap |-> t.wrap, base |-> t.base]
                   /\ RefersToObject(t) => ObjectNameOf(t) \in names /\ Len(ObjectNameOf(t)) > Len(n)
    <3> DEFINE was == types[p].fields[f].type
               t == At(f).type
    <3>1. IsField(types[p].fields[f])
      BY <2>3
    <3>2. At(f) = [type |-> t, desc |-> At(f).desc] /\ t = [was EXCEPT !.base = Absolute(was)]
      <4> DEFINE is == types[p].fields[f]
                 u == [was EXCEPT !.base = Absolute(was)]
      <4>1. At(f) = [is EXCEPT !.type = u]
        OBVIOUS
      <4>2. DOMAIN is = {"type", "desc"}
        BY <3>1 DEF IsField
      <4> HIDE DEF is, u, At
      <4>3. At(f) = [type |-> u, desc |-> is.desc]
        BY <4>1, <4>2, OtherType
      <4>4. At(f).type = u /\ At(f).desc = is.desc
        BY <4>3
      <4> QED
        BY <4>3, <4>4 DEF u
    <3>4. DOMAIN was = {"wrap", "base"}
      BY <3>1 DEF IsField
    <3> HIDE DEF was, t
    <3>5. t = [wrap |-> t.wrap, base |-> t.base] /\ t.base = Absolute(was)
      BY <3>2, <3>4
    <3>6. RefersToObject(was) => /\ Absolute(was) = <<"object", root \o ObjectNameOf(was)>>
                                 /\ ObjectNameOf(was) \in DOMAIN types
                                 /\ Len(ObjectNameOf(was)) > Len(p)
      BY <2>3 DEF Object, was
    <3>7. RefersToObject(t) =>
            /\ ObjectNameOf(t) = root \o ObjectNameOf(was) /\ ObjectNameOf(was) \in DOMAIN types
            /\ Len(ObjectNameOf(was)) > Len(p)
      BY <3>5, <3>6 DEF RefersToObject, ObjectNameOf
    <3>8. RefersToObject(t) => Len(ObjectNameOf(t)) > Len(n)
      <4>1. \A q \in DOMAIN types : q \in Seq(STRING)
        BY DEF IsSample, IsRelative, IsObjectTypes
      <4> QED
        BY <4>1, <3>7, <2>1, <2>2
    <3> QED
      BY <3>2, <3>5, <3>7, <3>8 DEF t
  <2> HIDE DEF At
  <2>7. /\ fields = [f \in DOMAIN fields |-> fields[f]]
        /\ \A f \in DOMAIN fields : f \in DOMAIN types[p].fields /\ fields[f] = At(f)
    OBVIOUS
  <2> HIDE DEF fields
  <2>8. U[n].fields = fields
    BY <2>4
  <2>9. ASSUME NEW f \in DOMAIN fields
        PROVE  LET t == fields[f].type
               IN  /\ fields[f] = [type |-> t, desc |-> fields[f].desc]
                   /\ t = [wrap |-> t.wrap, base |-> t.base]
                   /\ RefersToObject(t) => ObjectNameOf(t) \in names /\ Len(ObjectNameOf(t)) > Len(n)
    <3>1. f \in DOMAIN types[p].fields /\ fields[f] = At(f)
      BY <2>7
    <3> QED
      BY <2>6, <3>1
  <2> HIDE DEF names, U
  <2>10. IsSampledType(U[n])
    BY <2>4, <2>7, <2>8, <2>9 DEF IsSampledType
  <2> QED
    BY <2>5, <2>8, <2>9, <2>10
<1> QED
  BY <1>1, <1>2, <1>3 DEF IsUpdate

------------------------------------------------------------------------------
\* The merge of two types and of two object types, once and again.

\* What two types reconcile to meets the same object types, and reconciling it again
\* changes nothing.
LEMMA ReconciledTwice ==
    ASSUME NEW old, DOMAIN old = {"wrap", "base"}, NEW new
    PROVE  /\ MeetsObjects(ReconcileTypes(old, new), new) <=> MeetsObjects(old, new)
           /\ ReconcileTypes(ReconcileTypes(old, new), new) = ReconcileTypes(old, new)
<1> DEFINE r == ReconcileTypes(old, new)
<1>1. CASE MeetsObjects(old, new)
  <2>1. r = [old EXCEPT !.base = new.base]
    BY <1>1 DEF ReconcileTypes
  <2> HIDE DEF r
  <2>2. r.wrap = old.wrap /\ r.base = new.base /\ [r EXCEPT !.base = new.base] = r
    BY <2>1
  <2>3. ArrayDepth(r) = ArrayDepth(old)
    BY <2>2 DEF ArrayDepth
  <2>4. MeetsObjects(r, new)
    BY <1>1, <2>2, <2>3 DEF MeetsObjects, RefersToObject
  <2>5. ReconcileTypes(r, new) = r
    BY <2>2, <2>4 DEF ReconcileTypes
  <2> QED
    BY <1>1, <2>4, <2>5 DEF r
<1>2. CASE ~MeetsObjects(old, new)
  BY <1>2 DEF ReconcileTypes
<1> QED
  BY <1>1, <1>2

\* A type reconciles with itself.
LEMMA ReconciledWithItself ==
    ASSUME NEW t, t = [wrap |-> t.wrap, base |-> t.base]
    PROVE  ReconcileTypes(t, t) = t
<1>1. [t EXCEPT !.base = t.base] = t
  OBVIOUS
<1> QED
  BY <1>1 DEF ReconcileTypes

\* Merging a sampled object type into another one settles the fields it has, of types that
\* refer to the same object types; once they are settled, merging it again changes nothing.
LEMMA MergedTwice ==
    ASSUME NEW old, DOMAIN old = {"desc", "fields"},
           \A f \in DOMAIN old.fields : IsField(old.fields[f]),
           NEW new, IsSampledType(new)
    PROVE  LET merged == BackwardCompatibleObjectType(old, new)
           IN  /\ FieldsSettled(merged, new)
               /\ DOMAIN merged.fields = DOMAIN old.fields \cup DOMAIN new.fields
               /\ \A f \in DOMAIN old.fields \cap DOMAIN new.fields :
                    MeetsObjects(merged.fields[f].type, new.fields[f].type)
                        <=> MeetsObjects(old.fields[f].type, new.fields[f].type)
               /\ FieldsSettled(old, new) => BackwardCompatibleObjectType(merged, new) = merged
<1> DEFINE Both(o, f) == [type |-> ReconcileTypes(o.fields[f].type, new.fields[f].type),
                          desc |-> OrDescription(o.desc, new.fields[f].desc)]
           Merged(o, f) == IF f \notin DOMAIN new.fields THEN o.fields[f]
                           ELSE IF f \notin DOMAIN o.fields THEN new.fields[f]
                           ELSE Both(o, f)
           merged == BackwardCompatibleObjectType(old, new)
<1>1. \A o : BackwardCompatibleObjectType(o, new) =
            [desc   |-> OrDescription(o.desc, new.desc),
             fields |-> [f \in DOMAIN o.fields \cup DOMAIN new.fields |-> Merged(o, f)]]
  BY DEF BackwardCompatibleObjectType
<1> HIDE DEF merged, Merged
<1>2. /\ merged.desc = OrDescription(old.desc, new.desc)
      /\ DOMAIN merged.fields = DOMAIN old.fields \cup DOMAIN new.fields
      /\ \A f \in DOMAIN merged.fields : merged.fields[f] = Merged(old, f)
      /\ merged = [desc |-> merged.desc, fields |-> merged.fields]
      /\ merged.fields = [f \in DOMAIN merged.fields |-> merged.fields[f]]
  <2>1. merged = [desc   |-> OrDescription(old.desc, new.desc),
                  fields |-> [f \in DOMAIN old.fields \cup DOMAIN new.fields |-> Merged(old, f)]]
    BY <1>1 DEF merged
  <2> QED
    BY <2>1
<1>3. new.desc = NoDescription
      /\ \A f \in DOMAIN new.fields :
            LET t == new.fields[f].type
            IN  new.fields[f] = [type |-> t, desc |-> new.fields[f].desc] /\ t = [wrap |-> t.wrap, base |-> t.base]
  BY DEF IsSampledType
<1>4. ASSUME NEW f \in DOMAIN old.fields \cap DOMAIN new.fields
      PROVE  /\ merged.fields[f] = Both(old, f)
             /\ merged.fields[f].type = ReconcileTypes(old.fields[f].type, new.fields[f].type)
             /\ MeetsObjects(merged.fields[f].type, new.fields[f].type)
                    <=> MeetsObjects(old.fields[f].type, new.fields[f].type)
             /\ ReconcileTypes(merged.fields[f].type, new.fields[f].type) = merged.fields[f].type
  <2>1. merged.fields[f] = Both(old, f)
    BY <1>2 DEF Merged
  <2>2. merged.fields[f].type = ReconcileTypes(old.fields[f].type, new.fields[f].type)
    BY <2>1
  <2>3. DOMAIN old.fields[f].type = {"wrap", "base"}
    BY DEF IsField
  <2> QED
    BY <2>1, <2>2, <2>3, ReconciledTwice
<1>5. ASSUME NEW f \in DOMAIN new.fields
      PROVE  ReconcileTypes(merged.fields[f].type, new.fields[f].type) = merged.fields[f].type
  <2>1. CASE f \in DOMAIN old.fields
    BY <1>4, <2>1
  <2>2. CASE f \notin DOMAIN old.fields
    <3>1. merged.fields[f] = new.fields[f]
      BY <1>2, <2>2 DEF Merged
    <3> QED
      BY <1>3, <3>1, ReconciledWithItself
  <2> QED
    BY <2>1, <2>2
<1>6. FieldsSettled(merged, new)
  BY <1>2, <1>5 DEF FieldsSettled
<1>7. \A f \in DOMAIN old.fields \cap DOMAIN new.fields :
            MeetsObjects(merged.fields[f].type, new.fields[f].type)
                <=> MeetsObjects(old.fields[f].type, new.fields[f].type)
  BY <1>4
<1>8. ASSUME FieldsSettled(old, new)
      PROVE  BackwardCompatibleObjectType(merged, new) = merged
  <2>1. DOMAIN merged.fields = DOMAIN old.fields /\ DOMAIN new.fields \subseteq DOMAIN old.fields
    BY <1>2, <1>8 DEF FieldsSettled
  <2>2. OrDescription(merged.desc, new.desc) = merged.desc /\ merged.desc = old.desc
    BY <1>2, <1>3 DEF OrDescription
  <2>3. ASSUME NEW f \in DOMAIN merged.fields
        PROVE  Merged(merged, f) = merged.fields[f]
    <3>1. CASE f \in DOMAIN new.fields
      <4>1. Merged(merged, f) = [type |-> merged.fields[f].type,
                                 desc |-> OrDescription(old.desc, new.fields[f].desc)]
        BY <1>5, <2>1, <2>2, <3>1 DEF Merged
      <4>2. merged.fields[f] = Both(old, f)
        BY <1>4, <2>1, <3>1
      <4> QED
        BY <4>1, <4>2
    <3>2. CASE f \notin DOMAIN new.fields
      BY <3>2 DEF Merged
    <3> QED
      BY <3>1, <3>2
  <2>4. BackwardCompatibleObjectType(merged, new) =
            [desc   |-> OrDescription(merged.desc, new.desc),
             fields |-> [f \in DOMAIN merged.fields \cup DOMAIN new.fields |-> Merged(merged, f)]]
    BY <1>1
  <2>5. DOMAIN merged.fields \cup DOMAIN new.fields = DOMAIN merged.fields
    BY <2>1
  <2>6. [f \in DOMAIN merged.fields |-> Merged(merged, f)] = merged.fields
    BY <2>3, <1>2
  <2> QED
    BY <2>2, <2>4, <2>5, <2>6, <1>2
<1> QED
  BY <1>2, <1>6, <1>7, <1>8 DEF merged

\* A sampled object type is settled, and merging it into itself changes nothing.
LEMMA SampledTwice ==
    ASSUME NEW new, IsSampledType(new)
    PROVE  FieldsSettled(new, new) /\ BackwardCompatibleObjectType(new, new) = new
<1>1. ASSUME NEW f \in DOMAIN new.fields
      PROVE  /\ ReconcileTypes(new.fields[f].type, new.fields[f].type) = new.fields[f].type
             /\ [type |-> new.fields[f].type, desc |-> new.fields[f].desc] = new.fields[f]
  BY ReconciledWithItself DEF IsSampledType
<1>2. /\ new = [desc |-> NoDescription, fields |-> new.fields] /\ new.desc = NoDescription
      /\ new.fields = [f \in DOMAIN new.fields |-> new.fields[f]]
  BY DEF IsSampledType
<1>3. FieldsSettled(new, new)
  BY <1>1 DEF FieldsSettled
<1>4. BackwardCompatibleObjectType(new, new) =
            [desc   |-> OrDescription(new.desc, new.desc),
             fields |-> [f \in DOMAIN new.fields |->
                            [type |-> ReconcileTypes(new.fields[f].type, new.fields[f].type),
                             desc |-> OrDescription(new.desc, new.fields[f].desc)]]]
  BY DEF BackwardCompatibleObjectType
<1>5. OrDescription(new.desc, new.desc) = NoDescription
      /\ \A d : OrDescription(new.desc, d) = d
  BY <1>2 DEF OrDescription
<1> DEFINE At(f) == [type |-> ReconcileTypes(new.fields[f].type, new.fields[f].type),
                     desc |-> OrDescription(new.desc, new.fields[f].desc)]
<1>6. \A f \in DOMAIN new.fields : At(f) = new.fields[f]
  BY <1>1, <1>5
<1>7. [f \in DOMAIN new.fields |-> At(f)] = new.fields
  BY <1>2, <1>6
<1> QED
  BY <1>2, <1>3, <1>4, <1>5, <1>7

------------------------------------------------------------------------------
\* What a merge visits.

\* From the root, the merge follows references to deeper object types of the update, and
\* visits the least set that is closed under them.
LEMMA VisitedSound ==
    ASSUME NEW root, NEW U, IsUpdate(U, root), NEW T
    PROVE  LET V == Visited(T, U, root)
           IN  /\ root \in V /\ V \subseteq DOMAIN U
               /\ \A n \in V : Followed(T, U, n) \subseteq V
               /\ \A n \in DOMAIN U : \A m \in Followed(T, U, n) : m \in DOMAIN U /\ Len(m) > Len(n)
               /\ \A S \in SUBSET DOMAIN U :
                    root \in S /\ (\A n \in S : Followed(T, U, n) \subseteq S) => V \subseteq S
<1> DEFINE names == {root} \cup DOMAIN T \cup DOMAIN U
           Closed(S) == \A n \in S : Followed(T, U, n) \cap names \subseteq S
           V == Visited(T, U, root)
<1>1. V = {n \in names : \A S \in SUBSET names : root \in S /\ Closed(S) => n \in S}
  BY DEF Visited
<1>2. root \in DOMAIN U
  BY DEF IsUpdate
<1>3. ASSUME NEW n \in DOMAIN U, NEW m \in Followed(T, U, n)
      PROVE  m \in DOMAIN U /\ Len(m) > Len(n)
  <2>1. PICK f \in DOMAIN U[n].fields :
            m = ObjectNameOf(U[n].fields[f].type) /\ RefersToObject(U[n].fields[f].type)
    BY DEF Followed, MeetsObjects
  <2> QED
    BY <2>1 DEF IsUpdate
<1>4. \A n \in names : Followed(T, U, n) # {} => n \in DOMAIN U
  BY DEF Followed
<1>5. \A n \in names : Followed(T, U, n) \subseteq DOMAIN U
  BY <1>3, <1>4
<1> HIDE DEF V
<1>6. root \in V
  BY <1>1
<1>7. ASSUME NEW S \in SUBSET DOMAIN U, root \in S, \A n \in S : Followed(T, U, n) \subseteq S
      PROVE  V \subseteq S
  BY <1>1, <1>7
<1>8. V \subseteq DOMAIN U
  BY <1>2, <1>5, <1>7
<1>9. ASSUME NEW n \in V PROVE Followed(T, U, n) \subseteq V
  <2> SUFFICES ASSUME NEW m \in Followed(T, U, n), NEW S \in SUBSET names, root \in S, Closed(S)
               PROVE  m \in S
    BY <1>1, <1>5, <1>8
  <2>1. n \in S
    BY <1>1
  <2> QED
    BY <2>1, <1>5, <1>8
<1> QED
  BY <1>3, <1>6, <1>7, <1>8, <1>9 DEF V

\* The merge of a sample defines what it visits: the sampled object type, merged into the one
\* that is defined.
LEMMA MergeDefines ==
    ASSUME NEW s, IsSchema(s), NEW U, IsUpdate(U, s.type)
    PROVE  LET merged == KeepBackwardCompatibleChanges(s, U)
               V == Visited(s.types, U, s.type)
           IN  /\ merged.type = s.type
               /\ merged = [type |-> s.type, desc |-> s.desc, types |-> merged.types]
               /\ DOMAIN merged.types = V
               /\ merged.types = [n \in V |-> merged.types[n]]
               /\ \A n \in V : merged.types[n] = IF n \notin DOMAIN s.types THEN U[n]
                                                 ELSE BackwardCompatibleObjectType(s.types[n], U[n])
<1> DEFINE V == Visited(s.types, U, s.type)
           visited == V \cap (DOMAIN s.types \cup DOMAIN U)
           Merged(n) == IF n \notin DOMAIN U THEN s.types[n]
                        ELSE IF n \notin DOMAIN s.types THEN U[n]
                        ELSE BackwardCompatibleObjectType(s.types[n], U[n])
           types == [n \in visited |-> Merged(n)]
           merged == KeepBackwardCompatibleChanges(s, U)
<1>1. V \subseteq DOMAIN U /\ visited = V
  BY VisitedSound
<1>2. merged = [s EXCEPT !.types = types]
  BY DEF KeepBackwardCompatibleChanges
<1>3. DOMAIN types = V /\ types = [n \in V |-> types[n]]
      /\ \A n \in V : types[n] = IF n \notin DOMAIN s.types THEN U[n]
                                 ELSE BackwardCompatibleObjectType(s.types[n], U[n])
  BY <1>1
<1>4. DOMAIN s = {"type", "desc", "types"}
  BY DEF IsSchema
<1> HIDE DEF types, merged, V
<1>5. merged = [type |-> s.type, desc |-> s.desc, types |-> types]
  BY <1>2, <1>4
<1> QED
  BY <1>3, <1>5 DEF merged, V

------------------------------------------------------------------------------
\* One run after the other.

\* A new schema is what was sampled: its object types are all there, and settled.
LEMMA NewIsSettled ==
    ASSUME NEW c, NEW root, NEW types, IsUpdate(Rooted(root, types), root)
    PROVE  Settled(NewSchema(c, root, types), Rooted(root, types), 1)
<1> DEFINE U == Rooted(root, types)
           s == NewSchema(c, root, types)
<1>1. s = [type |-> root, desc |-> NoDescription, types |-> U]
  BY DEF NewSchema
<1> HIDE DEF s, U
<1>2. s.type = root /\ s.types = U /\ s = [type |-> s.type, desc |-> s.desc, types |-> s.types]
  BY <1>1
<1>3. U = [n \in DOMAIN U |-> U[n]] /\ \A n \in DOMAIN U : FieldsSettled(U[n], U[n])
  BY SampledTwice DEF IsUpdate, U
<1>4. Visited(U, U, root) \subseteq DOMAIN U
  BY VisitedSound DEF U
<1> QED
  BY <1>2, <1>3, <1>4 DEF Settled, s, U

\* One more run settles one more level: it defines what the run before has visited, hence
\* visits one level more.
LEMMA MergeSettles ==
    ASSUME NEW s, IsSchema(s), NEW U, IsUpdate(U, s.type), NEW k \in Nat, Settled(s, U, k)
    PROVE  Settled(KeepBackwardCompatibleChanges(s, U), U, k + 1)
<1> DEFINE root == s.type
           T == s.types
           merged == KeepBackwardCompatibleChanges(s, U)
           M == merged.types
           V == Visited(T, U, root)
           W == Visited(M, U, root)
<1>1. /\ root \in V /\ V \subseteq DOMAIN U
      /\ \A n \in V : Followed(T, U, n) \subseteq V
      /\ \A S \in SUBSET DOMAIN U : root \in S /\ (\A n \in S : Followed(T, U, n) \subseteq S) => V \subseteq S
  BY VisitedSound
<1>2. /\ root \in W /\ W \subseteq DOMAIN U
      /\ \A n \in W : Followed(M, U, n) \subseteq W
      /\ \A n \in DOMAIN U : \A m \in Followed(M, U, n) : m \in DOMAIN U /\ Len(m) > Len(n)
      /\ \A S \in SUBSET DOMAIN U : root \in S /\ (\A n \in S : Followed(M, U, n) \subseteq S) => W \subseteq S
  BY VisitedSound
<1>3. /\ merged.type = root
      /\ merged = [type |-> s.type, desc |-> s.desc, types |-> M]
      /\ DOMAIN M = V /\ M = [n \in V |-> M[n]]
      /\ \A n \in V : M[n] = IF n \notin DOMAIN T THEN U[n] ELSE BackwardCompatibleObjectType(T[n], U[n])
  BY MergeDefines
<1> HIDE DEF merged, V, W
<1>4. /\ \A n \in DOMAIN U : IsSampledType(U[n]) /\ n \in Seq(STRING) /\ (n # root => Len(n) > Len(root))
      /\ root \in DOMAIN U
  BY DEF IsUpdate, IsObjectTypes
<1>5. \A n \in DOMAIN T : /\ DOMAIN T[n] = {"desc", "fields"}
                          /\ \A f \in DOMAIN T[n].fields : IsField(T[n].fields[f])
  BY DEF IsSchema, IsObjectTypes
<1>6. ASSUME NEW n \in V, n \in DOMAIN T
      PROVE  /\ FieldsSettled(M[n], U[n])
             /\ DOMAIN M[n].fields = DOMAIN T[n].fields \cup DOMAIN U[n].fields
             /\ \A f \in DOMAIN T[n].fields \cap DOMAIN U[n].fields :
                    MeetsObjects(M[n].fields[f].type, U[n].fields[f].type)
                        <=> MeetsObjects(T[n].fields[f].type, U[n].fields[f].type)
             /\ FieldsSettled(T[n], U[n]) => BackwardCompatibleObjectType(M[n], U[n]) = M[n]
  <2>1. M[n] = BackwardCompatibleObjectType(T[n], U[n])
    BY <1>3, <1>6
  <2>2. IsSampledType(U[n])
    BY <1>1, <1>4
  <2> QED
    BY <1>5, <1>6, <2>1, <2>2, MergedTwice
<1>7. ASSUME NEW n \in V, n \notin DOMAIN T
      PROVE  FieldsSettled(M[n], U[n]) /\ BackwardCompatibleObjectType(M[n], U[n]) = M[n]
  BY <1>1, <1>3, <1>4, <1>7, SampledTwice
\* Whatever was visited is visited again ...
<1>8. V \subseteq W
  <2>1. ASSUME NEW n \in V PROVE Followed(T, U, n) \subseteq Followed(M, U, n)
    <3>1. CASE n \in DOMAIN T
      BY <1>1, <1>3, <1>6, <3>1 DEF Followed
    <3>2. CASE n \notin DOMAIN T
      BY <3>2 DEF Followed
    <3> QED
      BY <3>1, <3>2
  <2>2. \A n \in V \cap W : Followed(T, U, n) \subseteq V \cap W
    BY <1>1, <1>2, <2>1
  <2> QED
    BY <1>1, <1>2, <2>2
\* ... and what is visited anew is deeper than k levels.
<1>9. ASSUME NEW n \in W, Len(n) < Len(root) + (k + 1)
      PROVE  n \in V
  <2>1. CASE k = 0
    <3>1. Len(n) \in Nat /\ Len(root) \in Nat
      BY <1>2, <1>4
    <3>2. n = root
      BY <1>2, <1>4, <1>9, <2>1, <3>1
    <3> QED
      BY <1>1, <3>2
  <2>2. CASE k >= 1
    <3> DEFINE deepest == Len(root) + k
               S == V \cup {m \in DOMAIN U : Len(m) > deepest}
    <3>1. deepest \in Nat /\ \A m \in DOMAIN U : Len(m) \in Nat
      BY <1>4
    <3>2. Len(n) <= deepest /\ \A m \in V : m \notin DOMAIN T => Len(m) >= deepest
      <4>1. \A m \in V : m \notin DOMAIN T => ~(Len(m) < deepest)
        BY <2>2 DEF Settled, V
      <4>2. Len(n) <= deepest
        <5>1. Len(n) \in Nat /\ Len(root) \in Nat
          BY <1>2, <1>4
        <5> HIDE DEF root
        <5> QED
          BY <1>9, <5>1
      <4> QED
        BY <1>1, <3>1, <4>1, <4>2
    <3> HIDE DEF deepest
    <3>3. ASSUME NEW p \in S, NEW m \in Followed(M, U, p)
          PROVE  m \in S
      <4>1. p \in DOMAIN U /\ m \in DOMAIN U /\ Len(m) > Len(p)
        BY <1>1, <1>2
      <4>2. CASE p \in V /\ p \in DOMAIN T
        <5>1. DOMAIN U[p].fields \subseteq DOMAIN T[p].fields
          BY <2>2, <4>1, <4>2 DEF Settled, FieldsSettled
        <5>2. Followed(M, U, p) \subseteq Followed(T, U, p)
          BY <1>6, <4>1, <4>2, <5>1 DEF Followed
        <5> QED
          BY <1>1, <4>2, <5>2
      <4>3. CASE p \in V /\ p \notin DOMAIN T
        BY <3>1, <3>2, <4>1, <4>3
      <4>4. CASE p \notin V
        BY <3>1, <4>1, <4>4
      <4> QED
        BY <4>2, <4>3, <4>4
    <3>4. W \subseteq S
      <4>1. S \in SUBSET DOMAIN U /\ root \in S
        BY <1>1
      <4> QED
        BY <1>2, <3>3, <4>1
    <3> QED
      BY <1>2, <3>1, <3>2, <3>4
  <2> QED
    BY <2>1, <2>2
<1>10. \A n \in DOMAIN M : FieldsSettled(M[n], U[n])
  BY <1>3, <1>6, <1>7
<1>11. ASSUME k >= 1, NEW n \in DOMAIN M
       PROVE  BackwardCompatibleObjectType(M[n], U[n]) = M[n]
  <2>1. n \in DOMAIN T => FieldsSettled(T[n], U[n])
    BY <1>1, <1>3, <1>11 DEF Settled
  <2> QED
    BY <1>3, <1>6, <1>7, <2>1
<1> HIDE DEF M
<1>12. merged.types = M /\ merged.desc = s.desc
  BY <1>3 DEF M
<1>13. k + 1 >= 2 => k >= 1
  OBVIOUS
<1> QED
  BY <1>3, <1>8, <1>9, <1>10, <1>11, <1>12, <1>13 DEF Settled, W, merged

\* Once as many runs as there are levels, and two at least, have been completed, the merge
\* changes nothing.
LEMMA SettledIsFixed ==
    ASSUME NEW s, IsSchema(s), NEW U, IsUpdate(U, s.type), NEW k \in Nat, Settled(s, U, k),
           k >= 2, \A n \in DOMAIN U : Len(n) < Len(s.type) + k
    PROVE  KeepBackwardCompatibleChanges(s, U) = s
<1> DEFINE T == s.types
           merged == KeepBackwardCompatibleChanges(s, U)
           M == merged.types
           V == Visited(T, U, s.type)
<1>1. V \subseteq DOMAIN U
  BY VisitedSound
<1>2. /\ s = [type |-> s.type, desc |-> s.desc, types |-> T]
      /\ T = [n \in DOMAIN T |-> T[n]]
      /\ \A n \in V : n \in DOMAIN T
      /\ \A n \in DOMAIN T : n \in V /\ BackwardCompatibleObjectType(T[n], U[n]) = T[n]
  BY <1>1 DEF Settled
<1>3. /\ merged = [type |-> s.type, desc |-> s.desc, types |-> M]
      /\ DOMAIN M = V /\ M = [n \in V |-> M[n]]
      /\ \A n \in V : M[n] = IF n \notin DOMAIN T THEN U[n] ELSE BackwardCompatibleObjectType(T[n], U[n])
  BY MergeDefines
<1> HIDE DEF merged, V
<1>4. V = DOMAIN T
  BY <1>2
<1>5. \A n \in V : M[n] = T[n]
  BY <1>2, <1>3, <1>4
<1>6. M = T
  BY <1>2, <1>3, <1>4, <1>5
<1> QED
  BY <1>2, <1>3, <1>6 DEF merged

------------------------------------------------------------------------------
\* The invariant: what the runs have settled.

\* The file of every collection that is sampled holds a schema k runs have settled
DirectorySettled(fs, k) ==
    k >= 1 => \A c \in Collections : IsSampled(c) =>
        /\ Holds(fs, c)
        /\ Settled(SchemaIn(fs, c), Rooted(SchemaIn(fs, c).type, content[c][2]), k)

\* A run that is on its way over an unchanged database and directory
Calm == cli.pc # "idle" /\ ~changed /\ NoValidators

HistoryTyped ==
    /\ quiet \in Nat
    /\ files = [f \in FileNames |-> files[f]]
    /\ cli.pc # "idle" => before = [f \in FileNames |-> before[f]]
RunsSettle ==
    /\ cli.pc = "idle" /\ NoValidators => DirectorySettled(files, quiet)
    /\ Calm => DirectorySettled(before, quiet)

\* Such a run writes nothing before the samples, reads what was there when it started, and
\* then writes the files of what is pending
RunInOrder ==
    Calm =>
        /\ cli.pc = "writeValidators" => cli.queue = {}
        /\ cli.pc # "writeSamples" => files = before
        /\ cli.pc \in {"list", "sample", "writeSamples"} => Readable(before) /\ cli.existing = Configured(before)
        /\ cli.pc = "writeSamples" => \A f \in FileNames : files[f] # before[f] =>
                f[2] = "json" /\ f[1] \in DOMAIN cli.pending

SettlingInv == HistoryTyped /\ RunsSettle /\ RunInOrder

\* When an undisturbed run is done, each sampled collection has the schema that was derived
\* for it, out of the one the run found there.
LEMMA WhatIsWritten ==
    ASSUME IInv, SettlingInv, Undisturbed, NoValidators
    PROVE  /\ \A c \in DOMAIN cli.pending : c \in Collections /\ IsSampled(c)
           /\ \A c \in Collections : IsSampled(c) =>
                /\ files[<<c, "json">>] = Holding(SampledSchema(c, content[c][2]))
                /\ IsSample(content[c][2])
                /\ c \in DOMAIN cli.existing => IsSchema(cli.existing[c])
                /\ Holds(before, c) => c \in DOMAIN cli.existing /\ cli.existing[c] = SchemaIn(before, c)
<1>1. cli.pc = "writeSamples" /\ cli.queue = {} /\ ~changed /\ Calm
  BY DEF Undisturbed, Calm
<1>2. /\ cli.unsampled = {}
      /\ \A c \in Collections : IsSampled(c) => c \in DOMAIN cli.pending
      /\ \A c \in DOMAIN cli.pending : IsSampled(c) /\ cli.pending[c] = SampledSchema(c, content[c][2])
  BY <1>1 DEF IInv, EachIsSampled
<1>3. \A c \in DOMAIN cli.pending : files[<<c, "json">>] = Holding(cli.pending[c])
  BY <1>1 DEF IInv, EachIsWritten
<1>4. DOMAIN cli.pending \subseteq Collections /\ AreSchemas(cli.existing)
  BY DEF IInv, CommandTyped, AreSchemas
<1>5. Readable(before) /\ cli.existing = Configured(before)
  BY <1>1 DEF SettlingInv, RunInOrder
<1>6. \A c \in Collections : Holds(before, c) =>
            c \in DOMAIN cli.existing /\ cli.existing[c] = SchemaIn(before, c)
  BY <1>1, <1>5, ConfiguredSound DEF IInv, RunBegun
<1>7. \A c \in Collections : IsSampled(c) => IsSample(content[c][2])
  BY SampleTyped DEF IInv, IsSampled
<1> QED
  BY <1>2, <1>3, <1>4, <1>6, <1>7 DEF AreSchemas

\* A run that is done has settled one level more.
LEMMA RunSettles ==
    ASSUME IInv, SettlingInv, Undisturbed, NoValidators
    PROVE  DirectorySettled(files, quiet + 1)
<1> SUFFICES ASSUME NEW c \in Collections, IsSampled(c)
             PROVE  /\ Holds(files, c)
                    /\ Settled(SchemaIn(files, c), Rooted(SchemaIn(files, c).type, content[c][2]), quiet + 1)
  BY DEF DirectorySettled
<1> DEFINE types == content[c][2]
           s == SampledSchema(c, types)
           old == cli.existing[c]
<1>1. /\ files[<<c, "json">>] = Holding(s) /\ IsSample(types)
      /\ c \in DOMAIN cli.existing => IsSchema(old)
      /\ Holds(before, c) => c \in DOMAIN cli.existing /\ old = SchemaIn(before, c)
  BY WhatIsWritten
<1>2. Holds(files, c) /\ SchemaIn(files, c) = s
  BY <1>1 DEF Holds, SchemaIn, Holding
<1>3. quiet \in Nat /\ (quiet >= 1 => /\ Holds(before, c)
                                      /\ Settled(SchemaIn(before, c), Rooted(SchemaIn(before, c).type, types), quiet))
  BY DEF SettlingInv, HistoryTyped, RunsSettle, DirectorySettled, Calm, Undisturbed
<1>4. CASE c \in DOMAIN cli.existing
  <2> DEFINE U == Rooted(old.type, types)
  <2>1. s = KeepBackwardCompatibleChanges(old, U)
    BY <1>4 DEF SampledSchema
  <2>2. IsSchema(old) /\ IsUpdate(U, old.type)
    BY <1>1, <1>4, RootedSample DEF IsSchema
  <2>3. Settled(old, U, quiet)
    <3>1. CASE quiet >= 1
      BY <1>1, <1>3, <3>1
    <3>2. CASE ~(quiet >= 1)
      BY <3>2 DEF Settled
    <3> QED
      BY <3>1, <3>2
  <2> HIDE DEF s, old, U
  <2>4. Settled(s, U, quiet + 1) /\ s.type = old.type
    BY <1>3, <2>1, <2>2, <2>3, MergeSettles, MergeDefines
  <2> QED
    BY <1>2, <2>4 DEF U
<1>5. CASE c \notin DOMAIN cli.existing
  <2>1. quiet = 0
    BY <1>1, <1>3, <1>5
  <2>2. s = NewSchema(c, <<c>>, types) /\ s.type = <<c>>
    BY <1>5 DEF SampledSchema, NewSchema
  <2>3. <<c>> \in Seq(STRING)
    <3>1. c \in STRING
      BY NamesAssumption
    <3> QED
      BY <3>1, OneWord
  <2>4. IsUpdate(Rooted(<<c>>, types), <<c>>)
    BY <1>1, <2>3, RootedSample
  <2> HIDE DEF s, types
  <2>5. Settled(s, Rooted(s.type, types), 1)
    BY <2>2, <2>4, NewIsSettled
  <2> QED
    BY <1>2, <2>1, <2>5 DEF types
<1> QED
  BY <1>4, <1>5

------------------------------------------------------------------------------
\* The invariant holds at first, and every step keeps it.

\* No run has been completed at first.
LEMMA SettlingInit == Init => SettlingInv
<1> SUFFICES ASSUME Init PROVE SettlingInv
  OBVIOUS
<1>1. quiet = 0 /\ cli.pc = "idle" /\ files = [f \in FileNames |-> files[f]]
  BY DEF Init, Idle
<1> QED
  BY <1>1 DEF SettlingInv, HistoryTyped, RunsSettle, RunInOrder, DirectorySettled, Calm

\* What ends or disturbs a run, and what changes between two runs, starts the count anew.
LEMMA CountedAnew ==
    ASSUME SettlingInv, quiet' = 0, files' = [f \in FileNames |-> files'[f]],
           cli'.pc = "idle" \/ (changed' /\ before' = before /\ cli' = cli)
    PROVE  SettlingInv'
BY DEF SettlingInv, HistoryTyped, RunsSettle, RunInOrder, DirectorySettled, Calm

\* A run that begins remembers a directory as settled as it is.
LEMMA SettlingBegins ==
    ASSUME SettlingInv, NEW skip \in BOOLEAN, StartUpdate(skip)
    PROVE  SettlingInv'
<1>1. /\ cli'.pc \in {"read", "validators"} /\ cli.pc = "idle"
      /\ files' = files /\ before' = files /\ quiet' = quiet
      /\ listed' = listed /\ content' = content /\ validator' = validator
  BY DEF StartUpdate, Idle, environment
<1>2. HistoryTyped'
  BY <1>1 DEF SettlingInv, HistoryTyped
<1>3. RunsSettle'
  <2> SUFFICES ASSUME NoValidators PROVE DirectorySettled(files, quiet)
    BY <1>1 DEF RunsSettle, Calm, NoValidators, DirectorySettled, IsSampled
  <2> QED
    BY <1>1 DEF SettlingInv, RunsSettle
<1>4. RunInOrder'
  BY <1>1 DEF RunInOrder
<1> QED
  BY <1>2, <1>3, <1>4 DEF SettlingInv

\* A step of the command within a run changes nothing of what the count is about.
LEMMA WithinRun ==
    ASSUME SettlingInv, cli.pc # "idle", cli'.pc # "idle", UNCHANGED <<environment, history>>,
           files' = [f \in FileNames |-> files'[f]]
    PROVE  HistoryTyped' /\ RunsSettle' /\ (Calm' => Calm)
<1>1. /\ before' = before /\ changed' = changed /\ quiet' = quiet
      /\ listed' = listed /\ content' = content /\ validator' = validator
  BY DEF environment, history
<1>2. HistoryTyped'
  BY <1>1 DEF SettlingInv, HistoryTyped
<1>3. Calm' => Calm
  BY <1>1 DEF Calm, NoValidators
<1>4. RunsSettle'
  BY <1>1, <1>3 DEF SettlingInv, RunsSettle, DirectorySettled, IsSampled
<1> QED
  BY <1>2, <1>3, <1>4

\* A file is written in place, out of the queue.
LEMMA SettlingWrites ==
    ASSUME IInv, SettlingInv, SkipUnchangedFile \/ BeginWriteFile \/ EndWriteFile
    PROVE  SettlingInv'
<1>1. PICK c \in cli.queue :
            /\ files' = files \/ \E x : files' = [files EXCEPT ![<<c, "json">>] = x]
            /\ cli'.pc = cli.pc /\ cli'.pending = cli.pending /\ cli'.existing = cli.existing
            /\ cli'.queue \subseteq cli.queue
            /\ UNCHANGED <<environment, history>>
  <2>1. DOMAIN cli = DOMAIN Idle /\ cli.writing \subseteq cli.queue
    BY DEF IInv, CommandTyped, CommandInOrder
  <2>2. CASE SkipUnchangedFile
    BY <2>1, <2>2 DEF SkipUnchangedFile, NextToWrite, Idle
  <2>3. CASE BeginWriteFile
    <3>1. PICK c \in Collections :
            /\ NextToWrite(c)
            /\ files' = [files EXCEPT ![<<c, "json">>] = Torn]
            /\ cli' = [cli EXCEPT !.writing = {c}]
            /\ UNCHANGED <<environment, history>>
      BY <2>3 DEF BeginWriteFile
    <3> QED
      BY <2>1, <3>1 DEF NextToWrite, Idle
  <2>4. CASE EndWriteFile
    <3>1. PICK c \in cli.writing :
            /\ files' = [files EXCEPT ![<<c, "json">>] = Holding(cli.pending[c])]
            /\ cli' = [cli EXCEPT !.writing = {}, !.queue = @ \ {c}]
            /\ UNCHANGED <<environment, history>>
      BY <2>4 DEF EndWriteFile
    <3> QED
      BY <2>1, <3>1 DEF Idle
  <2> QED
    BY <2>2, <2>3, <2>4
<1>2. c \in DOMAIN cli.pending /\ cli.queue # {} /\ cli.pc \in {"writeValidators", "writeSamples"}
  BY <1>1 DEF IInv, CommandTyped, CommandInOrder
<1>3. /\ files' = [f \in FileNames |-> files'[f]]
      /\ \A f \in FileNames : files'[f] # files[f] => f = <<c, "json">>
  BY <1>1 DEF SettlingInv, HistoryTyped
<1>4. HistoryTyped' /\ RunsSettle' /\ (Calm' => Calm)
  BY <1>1, <1>2, <1>3, WithinRun
<1>5. ASSUME Calm
      PROVE  /\ cli.pc = "writeSamples" /\ Readable(before) /\ cli.existing = Configured(before)
             /\ \A f \in FileNames : files'[f] # before[f] => f[2] = "json" /\ f[1] \in DOMAIN cli.pending
  BY <1>2, <1>3, <1>5 DEF SettlingInv, RunInOrder
<1>6. before' = before
  BY <1>1 DEF history
<1>7. RunInOrder'
  BY <1>1, <1>4, <1>5, <1>6 DEF RunInOrder
<1> QED
  BY <1>4, <1>7 DEF SettlingInv

\* The steps of a run that write nothing.
LEMMA SettlingGoesOn ==
    ASSUME IInv, SettlingInv,
           \/ GetMetadataFromValidationSchema \/ ValidatorsWritten \/ ReadExistingSchemas
           \/ ListCollections \/ AllSampled \/ \E c \in Collections : SampleCollection(c)
    PROVE  SettlingInv'
<1>1. DOMAIN cli = DOMAIN Idle
  BY DEF IInv, CommandTyped
<1>2. files' = files /\ UNCHANGED <<environment, history>>
  BY DEF GetMetadataFromValidationSchema, ValidatorsWritten, ReadExistingSchemas, ListCollections, AllSampled,
     SampleCollection
<1>3. before' = before
  BY <1>2 DEF history
<1>4. \/ /\ cli.pc = "validators" /\ cli'.pc = "writeValidators"
         /\ cli'.queue = {c \in listed : validator[c] # NoValidator}
      \/ cli.pc = "writeValidators" /\ cli'.pc = "read"
      \/ cli.pc = "read" /\ cli'.pc = "list" /\ Readable(files) /\ cli'.existing = Configured(files)
      \/ cli.pc = "list" /\ cli'.pc = "sample" /\ cli'.existing = cli.existing
      \/ cli.pc = "sample" /\ cli'.pc = "sample" /\ cli'.existing = cli.existing
      \/ cli.pc = "sample" /\ cli'.pc = "writeSamples" /\ cli'.existing = cli.existing
  <2>1. CASE GetMetadataFromValidationSchema
    BY <1>1, <2>1 DEF GetMetadataFromValidationSchema, Idle
  <2>2. CASE ValidatorsWritten \/ ReadExistingSchemas \/ ListCollections \/ AllSampled
    BY <1>1, <2>2 DEF ValidatorsWritten, ReadExistingSchemas, ListCollections, AllSampled, Idle
  <2>3. CASE \E c \in Collections : SampleCollection(c)
    BY <1>1, <2>3 DEF SampleCollection, Idle
  <2> QED
    BY <2>1, <2>2, <2>3
<1>5. HistoryTyped' /\ RunsSettle' /\ (Calm' => Calm)
  BY <1>2, <1>4, WithinRun DEF SettlingInv, HistoryTyped
<1>6. Calm => cli.pc # "writeSamples" /\ files = before
  BY <1>4 DEF SettlingInv, RunInOrder
<1>7. Calm => {c \in listed : validator[c] # NoValidator} = {}
  BY DEF Calm, NoValidators, IInv, EnvironmentTyped
<1>8. Calm /\ cli.pc \in {"list", "sample"} => Readable(before) /\ cli.existing = Configured(before)
  BY DEF SettlingInv, RunInOrder
<1>9. RunInOrder'
  BY <1>2, <1>3, <1>4, <1>5, <1>6, <1>7, <1>8 DEF RunInOrder
<1> QED
  BY <1>5, <1>9 DEF SettlingInv

\* A run that is done counts, unless something has changed meanwhile.
LEMMA SettlingCounts ==
    ASSUME IInv, SettlingInv, UpdateDone
    PROVE  SettlingInv'
<1>1. /\ cli'.pc = "idle" /\ files' = files /\ quiet' = IF changed THEN 0 ELSE quiet + 1
      /\ listed' = listed /\ content' = content /\ validator' = validator
      /\ cli.pc = "writeSamples" /\ cli.queue = {}
  BY DEF UpdateDone, RunEnds, Idle, environment
<1>2. HistoryTyped'
  BY <1>1 DEF SettlingInv, HistoryTyped
<1>3. RunsSettle'
  <2> SUFFICES ASSUME NoValidators, ~changed PROVE DirectorySettled(files, quiet + 1)
    BY <1>1 DEF RunsSettle, Calm, NoValidators, DirectorySettled, IsSampled
  <2> QED
    BY <1>1, RunSettles DEF Undisturbed
<1>4. RunInOrder'
  BY <1>1 DEF RunInOrder, Calm
<1> QED
  BY <1>2, <1>3, <1>4 DEF SettlingInv

\* Each step keeps the count honest, whoever takes it.
LEMMA SettlingNext == IInv /\ SettlingInv /\ [Next]_vars => SettlingInv'
<1> SUFFICES ASSUME IInv, SettlingInv, [Next]_vars PROVE SettlingInv'
  OBVIOUS
<1>1. ASSUME NEW skip \in BOOLEAN, StartUpdate(skip) PROVE SettlingInv'
  BY <1>1, SettlingBegins
<1>2. CASE SkipUnchangedFile \/ BeginWriteFile \/ EndWriteFile
  BY <1>2, SettlingWrites
<1>3. CASE \/ GetMetadataFromValidationSchema \/ ValidatorsWritten \/ ReadExistingSchemas
           \/ ListCollections \/ AllSampled \/ \E c \in Collections : SampleCollection(c)
  BY <1>3, SettlingGoesOn
<1>4. CASE UpdateDone
  BY <1>4, SettlingCounts
<1>5. CASE BadCollectionSchema \/ UnreadableDirectory \/ WriteFails \/ Crash
  <2>1. quiet' = 0 /\ cli'.pc = "idle" /\ files' = files
    BY <1>5 DEF BadCollectionSchema, UnreadableDirectory, WriteFails, Crash, Fail, RunEnds, Idle
  <2>2. files' = [f \in FileNames |-> files'[f]]
    BY <2>1 DEF SettlingInv, HistoryTyped
  <2> QED
    BY <2>1, <2>2, CountedAnew
<1>6. ASSUME NEW c \in Collections, DatabaseChanges(c) \/ UserEdits(c) PROVE SettlingInv'
  <2>1. quiet' = 0 /\ changed' = (cli.pc # "idle") /\ cli' = cli /\ before' = before
    BY <1>6 DEF DatabaseChanges, UserEdits, Change
  <2>2. files' = [f \in FileNames |-> files'[f]]
    BY <1>6 DEF DatabaseChanges, UserEdits, SettlingInv, HistoryTyped
  <2> QED
    BY <2>1, <2>2, CountedAnew
<1>7. CASE UNCHANGED vars
  <2>1. /\ cli' = cli /\ files' = files /\ before' = before /\ changed' = changed /\ quiet' = quiet
        /\ listed' = listed /\ content' = content /\ validator' = validator
    BY <1>7 DEF vars
  <2> QED
    BY <2>1 DEF SettlingInv, HistoryTyped, RunsSettle, RunInOrder, Calm, NoValidators, DirectorySettled, IsSampled
<1> QED
  BY <1>1, <1>2, <1>3, <1>4, <1>5, <1>6, <1>7 DEF Next, Step

------------------------------------------------------------------------------
\* The theorem.

\* Together the two invariants hold of every behaviour.
THEOREM SettlingSound == Spec => [](IInv /\ SettlingInv)
BY InitSound, NextSound, SettlingInit, SettlingNext, PTL DEF Spec

\* Re-introspection settles: over an unchanged database without validators, once as many
\* runs have been completed as nested object types are deep, and two, the next writes nothing.
THEOREM Settles == Spec => []ReintrospectionSettles
<1>1. ASSUME IInv, SettlingInv, Undisturbed, NoValidators, quiet > 1, \A d \in Depths : quiet > d
      PROVE  files = before
  <2>1. ASSUME NEW c \in DOMAIN cli.pending
        PROVE  before[<<c, "json">>] = files[<<c, "json">>]
    <3> DEFINE types == content[c][2]
               old == cli.existing[c]
               U == Rooted(old.type, types)
    <3>1. c \in Collections /\ IsSampled(c)
      BY <1>1, WhatIsWritten
    <3>2. quiet \in Nat /\ Holds(before, c) /\ Settled(SchemaIn(before, c), Rooted(SchemaIn(before, c).type, types), quiet)
      BY <1>1, <3>1 DEF SettlingInv, HistoryTyped, RunsSettle, DirectorySettled, Calm, Undisturbed
    <3>3. /\ files[<<c, "json">>] = Holding(SampledSchema(c, types)) /\ IsSample(types)
          /\ c \in DOMAIN cli.existing /\ IsSchema(old) /\ old = SchemaIn(before, c)
      BY <1>1, <3>1, <3>2, WhatIsWritten
    <3>4. Settled(old, U, quiet) /\ SampledSchema(c, types) = KeepBackwardCompatibleChanges(old, U)
      BY <3>2, <3>3 DEF SampledSchema
    <3>5. IsUpdate(U, old.type)
      BY <3>3, RootedSample DEF IsSchema
    <3>6. ASSUME NEW n \in DOMAIN U
          PROVE  Len(n) < Len(old.type) + quiet
      <4>1. PICK p \in DOMAIN types : n = old.type \o p
        BY DEF Rooted
      <4>2. types \in Samples
        BY <1>1, <3>1 DEF IInv, EnvironmentTyped, IsSampled, Samplings, NoSample, Yielding
      <4>3. Len(p) \in Depths
        BY <4>2 DEF Depths
      <4>4. p \in Seq(STRING) /\ old.type \in Seq(STRING)
        BY <3>3 DEF IsSample, IsRelative, IsObjectTypes, IsSchema
      <4>5. Len(n) = Len(old.type) + Len(p) /\ Len(p) \in Nat /\ Len(old.type) \in Nat
        BY <4>1, <4>4
      <4> HIDE DEF old
      <4> QED
        BY <1>1, <3>2, <4>3, <4>5
    <3> HIDE DEF U, old
    <3>7. SampledSchema(c, types) = old
      BY <1>1, <3>2, <3>3, <3>4, <3>5, <3>6, SettledIsFixed
    <3>8. before[<<c, "json">>] = Holding(before[<<c, "json">>][2])
      <4>1. <<c, "json">> \in FileNames /\ cli.pc # "idle"
        BY <1>1, <3>1 DEF FileNames, Extensions, Undisturbed
      <4>2. IsFile(before[<<c, "json">>])
        BY <1>1, <4>1 DEF IInv, RunBegun, IsDirectory
      <4> QED
        BY <3>2, <4>2 DEF IsFile, Holds, Absent, Torn, Several
    <3> QED
      BY <3>3, <3>7, <3>8 DEF SchemaIn
  <2>2. /\ \A f \in FileNames : files[f] # before[f] => f[2] = "json" /\ f[1] \in DOMAIN cli.pending
        /\ files = [f \in FileNames |-> files[f]] /\ before = [f \in FileNames |-> before[f]]
    BY <1>1 DEF SettlingInv, HistoryTyped, RunInOrder, Calm, Undisturbed
  <2>3. \A f \in FileNames : f = <<f[1], f[2]>>
    BY DEF FileNames
  <2>4. ASSUME NEW f \in FileNames PROVE files[f] = before[f]
    <3> SUFFICES ASSUME files[f] # before[f] PROVE FALSE
      OBVIOUS
    <3>1. f[2] = "json" /\ f[1] \in DOMAIN cli.pending
      BY <2>2
    <3> DEFINE c == f[1]
    <3>2. f = <<c, "json">>
      BY <2>3, <3>1
    <3> HIDE DEF c
    <3>3. files[<<c, "json">>] = before[<<c, "json">>]
      BY <2>1, <3>1 DEF c
    <3> QED
      BY <3>2, <3>3
  <2> QED
    BY <2>2, <2>4
<1>2. IInv /\ SettlingInv => ReintrospectionSettles
  BY <1>1 DEF ReintrospectionSettles
<1> QED
  BY <1>2, SettlingSound, PTL
=============================================================================
