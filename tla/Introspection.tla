---------------------------- MODULE Introspection ----------------------------
(***************************************************************************)
(* The update command of the CLI (cli/src/lib.rs, update) and the          *)
(* configuration directory it works on (configuration/src/directory.rs),   *)
(* beside a database that changes, a user who edits the files, and crashes.*)
(*                                                                         *)
(* Every file is written in place and not atomically: it is "torn" from    *)
(* the moment fs::write truncates it to the moment its content is there.   *)
(*                                                                         *)
(* What sampling a collection yields (module Sampling) and what its        *)
(* validator says are object types relative to the collection's: a name is *)
(* the path of fields that leads to the type, <<>> for the root, which     *)
(* Rooted prefixes with the name of the collection's own object type.      *)
(***************************************************************************)
EXTENDS SchemaMerge, FiniteSets

CONSTANTS
    Collections,    \* the names of collections
    Order,          \* the collections in the order of a BTreeMap
    System,         \* those under the reserved "system." namespace
    Samples,        \* the relative object types a sample may yield
    Validators,     \* the relative object types a validator may declare
    UserSchemas(_), \* the schemas a user may write by hand for a collection
    MaxUpdates,     \* bound on the runs of the command
    MaxChanges      \* bound on the changes of the database and of the files

Extensions == {"json", "yaml"}
FileNames  == Collections \X Extensions

\* A set of relative object types: the root is there
IsRelative(types) == IsObjectTypes(types) /\ <<>> \in DOMAIN types

\* Sampling does not describe object types; it defines those it refers to, under the path of
\* the referring type followed by the field
IsSample(types) ==
    /\ IsRelative(types)
    /\ \A p \in DOMAIN types :
            /\ types[p].desc = NoDescription
            /\ \A f \in DOMAIN types[p].fields :
                    LET t == types[p].fields[f].type
                    IN  RefersToObject(t) => ObjectNameOf(t) \in DOMAIN types /\ Len(ObjectNameOf(t)) > Len(p)

ASSUME NamesAssumption     == Collections \subseteq STRING
ASSUME SystemAssumption    == System \subseteq Collections
ASSUME OrderAssumption     == Order \in Seq(Collections) /\ Collections = {Order[i] : i \in DOMAIN Order}
ASSUME SamplesAssumption   == \A s \in Samples : IsSample(s)
ASSUME ValidatorAssumption == \A v \in Validators : IsRelative(v)
ASSUME UserAssumption      == \A c \in Collections : \A s \in UserSchemas(c) : IsSchema(s)
ASSUME BoundsAssumption    == MaxUpdates \in Nat /\ MaxChanges \in Nat

\* The object types whose names extend root, the one of the collection
Rooted(root, types) ==
    LET Absolute(t) == IF RefersToObject(t) THEN Object(root \o ObjectNameOf(t)).base ELSE t.base
        names == {root \o p : p \in DOMAIN types}
        Relative(n) == SubSeq(n, Len(root) + 1, Len(n))
    IN  [n \in names |->
            [desc   |-> types[Relative(n)].desc,
             fields |-> [f \in DOMAIN types[Relative(n)].fields |->
                            [types[Relative(n)].fields[f] EXCEPT
                                !.type.base = Absolute(types[Relative(n)].fields[f].type)]]]]

\* The schema of a collection without one: its type has its name, and no description
NewSchema(c, root, types) == [type |-> root, desc |-> NoDescription, types |-> Rooted(root, types)]

------------------------------------------------------------------------------
\* The content of a schema file, and what listing and sampling a collection meets
Absent     == <<"absent">>
Torn       == <<"torn">>
Several    == <<"several">>     \* the schemas of more than one collection
Holding(s) == <<"schema", s>>

NoSample     == <<"none">>      \* no document to sample, or an error: permissions, a lost cursor
Yielding(s)  == <<"sample", s>>
NoValidator  == <<"none">>
Malformed    == <<"malformed">> \* a $jsonSchema the CLI cannot parse
Declaring(v) == <<"validator", v>>

VARIABLES
    listed,     \* the collections the database lists
    content,    \* what sampling each collection meets
    validator,  \* the validator of each collection
    files,      \* the schema directory
    cli,        \* the state of the command, see Idle below
    updates,    \* how many runs were started
    changes,    \* how many times the database or a file was changed
    before,     \* history: files when the run started, <<>> outside of a run
    changed,    \* history: something has changed since the run started
    edited,     \* history: it was a file
    quiet       \* history: runs completed since anything changed or failed

vars == <<listed, content, validator, files, cli, updates, changes,
          before, changed, edited, quiet>>
history == <<before, changed, edited, quiet>>
environment == <<listed, content, validator>>

\* pc:        the next step of update()
\* skipValidators: no_validator_schema, from the arguments or the options file
\* existing:  existing_schemas, read after the validator schemas are written
\* unsampled: the collections of the cursor still to come
\* pending:   the schemas to write, a function from collections
\* queue:     those still to write
\* writing:   the collection whose file is being written, {} if none
Steps == {"idle", "validators", "writeValidators", "read", "list", "sample", "writeSamples"}

Idle == [pc |-> "idle", skipValidators |-> FALSE, existing |-> <<>>, unsampled |-> {},
         pending |-> <<>>, queue |-> {}, writing |-> {}]

Init ==
    /\ listed = Collections
    /\ content \in [Collections -> {Yielding(s) : s \in Samples}]
    /\ validator \in [Collections -> {NoValidator} \cup {Declaring(v) : v \in Validators}]
    /\ files = [f \in FileNames |-> Absent]
    /\ cli = Idle
    /\ updates = 0 /\ changes = 0 /\ quiet = 0
    /\ before = <<>> /\ changed = FALSE /\ edited = FALSE

------------------------------------------------------------------------------
\* The command.

\* update() is called: the flag comes from the arguments or from the options file
StartUpdate(skip) ==
    /\ cli.pc = "idle"
    /\ updates < MaxUpdates
    /\ updates' = updates + 1
    /\ cli' = [Idle EXCEPT !.pc = IF skip THEN "read" ELSE "validators", !.skipValidators = skip]
    /\ before' = files
    /\ UNCHANGED <<environment, files, changes, changed, edited, quiet>>

RunEnds == cli' = Idle /\ before' = <<>> /\ changed' = FALSE /\ edited' = FALSE

\* An error returned by ? ends the run, leaving the directory as it is
Fail ==
    /\ RunEnds
    /\ quiet' = 0
    /\ UNCHANGED <<environment, files, updates, changes>>

\* The first collection of the queue, in the order of the map that is written
NextToWrite(c) ==
    /\ cli.pc \in {"writeValidators", "writeSamples"} /\ cli.writing = {}
    /\ c \in cli.queue
    /\ \E i \in DOMAIN Order : Order[i] = c /\ \A j \in 1..(i - 1) : Order[j] \notin cli.queue

\* get_metadata_from_validation_schema: all the listed validators, system ones included
GetMetadataFromValidationSchema ==
    LET declared == {c \in listed : validator[c] # NoValidator}
    IN  /\ cli.pc = "validators"
        /\ \A c \in declared : validator[c] # Malformed
        /\ cli' = [cli EXCEPT
                !.pc = "writeValidators",
                !.pending = [c \in declared |-> NewSchema(c, <<c>>, validator[c][2])],
                !.queue = declared]
        /\ UNCHANGED <<environment, files, updates, changes, history>>

BadCollectionSchema ==
    /\ cli.pc = "validators"
    /\ \E c \in listed : validator[c] = Malformed
    /\ Fail

\* write_file: a file that would not change is not written
SkipUnchangedFile ==
    \E c \in Collections :
        /\ NextToWrite(c)
        /\ files[<<c, "json">>] = Holding(cli.pending[c])
        /\ cli' = [cli EXCEPT !.queue = @ \ {c}]
        /\ UNCHANGED <<environment, files, updates, changes, history>>

\* write_file: fs::write truncates the file ...
BeginWriteFile ==
    \E c \in Collections :
        /\ NextToWrite(c)
        /\ files[<<c, "json">>] # Holding(cli.pending[c])
        /\ files' = [files EXCEPT ![<<c, "json">>] = Torn]
        /\ cli' = [cli EXCEPT !.writing = {c}]
        /\ UNCHANGED <<environment, updates, changes, history>>

\* ... and the content follows
EndWriteFile ==
    \E c \in cli.writing :
        /\ files' = [files EXCEPT ![<<c, "json">>] = Holding(cli.pending[c])]
        /\ cli' = [cli EXCEPT !.writing = {}, !.queue = @ \ {c}]
        /\ UNCHANGED <<environment, updates, changes, history>>

\* The write fails half way (no space left): the error ends the run
WriteFails == cli.writing # {} /\ Fail

ValidatorsWritten ==
    /\ cli.pc = "writeValidators" /\ cli.queue = {}
    /\ cli' = [cli EXCEPT !.pc = "read", !.pending = <<>>]
    /\ UNCHANGED <<environment, files, updates, changes, history>>

\* Mutant of Readable: a file that does not parse is skipped
ReadableParts(fs) ==
    \A c \in Collections : Absent \in {fs[<<c, "json">>], fs[<<c, "yaml">>]}

\* read_subdir_configs and read_existing_schemas: every file parses, holds one
\* collection, and no two have the same name
Readable(fs) ==
    /\ \A f \in FileNames : fs[f] \notin {Torn, Several}
    /\ \A c \in Collections : Absent \in {fs[<<c, "json">>], fs[<<c, "yaml">>]}

\* The configured schemas, by collection
Configured(fs) ==
    LET Held(c) == {fs[<<c, e>>][2] : e \in {x \in Extensions : fs[<<c, x>>][1] = "schema"}}
    IN  [c \in {d \in Collections : Held(d) # {}} |-> CHOOSE s \in Held(c) : TRUE]

\* read_existing_schemas
ReadExistingSchemas ==
    /\ cli.pc = "read"
    /\ Readable(files)
    /\ cli' = [cli EXCEPT !.pc = "list", !.existing = Configured(files)]
    /\ UNCHANGED <<environment, files, updates, changes, history>>

UnreadableDirectory == cli.pc = "read" /\ ~Readable(files) /\ Fail

\* db.list_collections
ListCollections ==
    /\ cli.pc = "list"
    /\ cli' = [cli EXCEPT !.pc = "sample", !.unsampled = listed]
    /\ UNCHANGED <<environment, files, updates, changes, history>>

\* Mutant of SampledSchema: the existing schemas are ignored
SampledSchemaAfresh(c, types) == NewSchema(c, <<c>>, types)

\* The schema sampling writes for c: the sampled one for a new collection, the
\* configured one with the compatible changes otherwise.  The sampled types are named
\* after the configured type of the collection.
SampledSchema(c, types) ==
    IF c \in DOMAIN cli.existing
    THEN KeepBackwardCompatibleChanges(cli.existing[c], Rooted(cli.existing[c].type, types))
    ELSE NewSchema(c, <<c>>, types)

\* Mutants of SampleCollection: each schema is written as soon as it is sampled; a
\* collection that is skipped stays in the cursor.
SampleAndWrite(c) ==
    /\ cli.pc = "sample"
    /\ c \in cli.unsampled
    /\ cli' = [cli EXCEPT !.unsampled = @ \ {c}]
    /\ files' = IF c \notin System /\ c \in listed /\ content[c] # NoSample
                THEN [files EXCEPT ![<<c, "json">>] = Holding(SampledSchema(c, content[c][2]))]
                ELSE files
    /\ UNCHANGED <<environment, updates, changes, history>>
SampleUntilFound(c) ==
    /\ cli.pc = "sample"
    /\ c \in cli.unsampled
    /\ c \notin System /\ c \in listed /\ content[c] # NoSample
    /\ cli' = [cli EXCEPT
                !.unsampled = @ \ {c},
                !.pending = [d \in DOMAIN cli.pending \cup {c} |->
                                IF d = c THEN SampledSchema(c, content[c][2]) ELSE cli.pending[d]]]
    /\ UNCHANGED <<environment, files, updates, changes, history>>

\* One turn of the loop of sample_schema_from_db.  A collection is skipped when it is
\* under system., when sampling fails, when it has no documents or is gone.
SampleCollection(c) ==
    /\ cli.pc = "sample"
    /\ c \in cli.unsampled
    /\ cli' =
        IF c \notin System /\ c \in listed /\ content[c] # NoSample
        THEN [cli EXCEPT
                !.unsampled = @ \ {c},
                !.pending = [d \in DOMAIN cli.pending \cup {c} |->
                                IF d = c THEN SampledSchema(c, content[c][2]) ELSE cli.pending[d]]]
        ELSE [cli EXCEPT !.unsampled = @ \ {c}]
    /\ UNCHANGED <<environment, files, updates, changes, history>>

AllSampled ==
    /\ cli.pc = "sample" /\ cli.unsampled = {}
    /\ cli' = [cli EXCEPT !.pc = "writeSamples", !.queue = DOMAIN cli.pending]
    /\ UNCHANGED <<environment, files, updates, changes, history>>

UpdateDone ==
    /\ cli.pc = "writeSamples" /\ cli.queue = {}
    /\ RunEnds
    /\ quiet' = IF changed THEN 0 ELSE quiet + 1
    /\ UNCHANGED <<environment, files, updates, changes>>

\* The process is killed, or the connection to the database is lost (list_collections
\* and the cursor end the run on an error)
Crash ==
    /\ cli.pc # "idle"
    /\ RunEnds
    /\ quiet' = 0
    /\ UNCHANGED <<environment, files, updates, changes>>

\* The steps the command takes by itself
Step ==
    \/ GetMetadataFromValidationSchema \/ BadCollectionSchema
    \/ SkipUnchangedFile \/ BeginWriteFile \/ EndWriteFile \/ ValidatorsWritten
    \/ ReadExistingSchemas \/ UnreadableDirectory
    \/ ListCollections \/ AllSampled \/ UpdateDone
    \/ \E c \in Collections : SampleCollection(c)

------------------------------------------------------------------------------
\* The database and the user.

Change ==
    /\ changes < MaxChanges
    /\ changes' = changes + 1
    /\ changed' = (cli.pc # "idle")
    /\ quiet' = 0

\* The collection is dropped or created, its documents or its validator change
DatabaseChanges(c) ==
    /\ Change
    /\ \/ /\ listed' = IF c \in listed THEN listed \ {c} ELSE listed \cup {c}
          /\ UNCHANGED <<content, validator>>
       \/ /\ \E x \in {NoSample} \cup {Yielding(s) : s \in Samples} :
                content' = [content EXCEPT ![c] = x]
          /\ UNCHANGED <<listed, validator>>
       \/ /\ \E v \in {NoValidator, Malformed} \cup {Declaring(v) : v \in Validators} :
                validator' = [validator EXCEPT ![c] = v]
          /\ UNCHANGED <<listed, content>>
    /\ UNCHANGED <<files, cli, updates, before, edited>>

\* The user saves a file, adds another collection to it, deletes it (also a torn one) or
\* moves it to YAML; never while the command has that directory open for writing
UserEdits(c) ==
    /\ Change
    /\ cli.writing = {}
    /\ edited' = (cli.pc # "idle")
    /\ \/ \E s \in UserSchemas(c), e \in Extensions :
            /\ files[<<c, e>>] # Absent
            /\ files' = [files EXCEPT ![<<c, e>>] = Holding(s)]
       \/ \E e \in Extensions, x \in {Absent, Several} :
            /\ files[<<c, e>>] # Absent
            /\ files' = [files EXCEPT ![<<c, e>>] = x]
       \/ /\ files[<<c, "json">>][1] = "schema" /\ files[<<c, "yaml">>] = Absent
          /\ files' = [files EXCEPT ![<<c, "yaml">>] = files[<<c, "json">>],
                                    ![<<c, "json">>] = Absent]
    /\ UNCHANGED <<environment, cli, updates, before>>

Next ==
    \/ \E skip \in BOOLEAN : StartUpdate(skip)
    \/ Step \/ WriteFails \/ Crash
    \/ \E c \in Collections : DatabaseChanges(c) \/ UserEdits(c)

\* The command is a single task: while it can take a step, it is not starved of it
Spec == Init /\ [][Next]_vars /\ WF_vars(Step)

------------------------------------------------------------------------------
\* Vocabulary of the properties.

Holds(fs, c) == fs[<<c, "json">>][1] = "schema"
SchemaIn(fs, c) == fs[<<c, "json">>][2]

\* The types of the fields of the collection's own object type
TopTypes(s) == {TopFields(s)[f].type : f \in DOMAIN TopFields(s)}

\* The run has written everything it was to write, and nothing changed since it started
Undisturbed == cli.pc = "writeSamples" /\ cli.queue = {} /\ ~changed

\* The collections this run takes a schema from
IsSampled(c) == c \in listed \ System /\ content[c] # NoSample
Updated(c) == Rooted(SchemaIn(files, c).type, content[c][2])

\* The length of the longest path to a nested object type
Depths == {Len(p) : p \in UNION {DOMAIN s : s \in Samples}}

------------------------------------------------------------------------------
\* Safety.

\* From its start to its end, and so wherever it stops, a run without validators leaves in
\* the file of a configured collection a schema that keeps what was configured at the top
\* level: a field that is gone from the samples is not removed, the type of a configured
\* field is not changed but for the object type it names.  One file at most is an exception,
\* the one fs::write has truncated and not filled yet: if the run stops there, all that was
\* configured for its collection is lost, as the schema that was to be written, which keeps
\* it, is only in memory.  Nobody edits the files meanwhile.
LostIfStopped(c) ==
    /\ cli.writing = {c} /\ files[<<c, "json">>] = Torn
    /\ KeepsTopLevel(SchemaIn(before, c), cli.pending[c])
ConfiguredTopLevelKept ==
    cli.pc # "idle" /\ cli.skipValidators /\ ~edited =>
        \A c \in Collections : Holds(before, c) =>
            \/ Holds(files, c) /\ KeepsTopLevel(SchemaIn(before, c), SchemaIn(files, c))
            \/ LostIfStopped(c)

\* Such a run touches nothing before the whole database is sampled, and then only the
\* files of collections it got a sample of: dropped, empty, unreadable and system
\* collections keep their configuration, and a run that fails to list or to sample leaves
\* the directory as it was.
OnlySampledFilesWritten ==
    cli.pc # "idle" /\ cli.skipValidators /\ ~edited =>
        \A f \in FileNames : files[f] # before[f] =>
            /\ cli.pc = "writeSamples" /\ f[2] = "json"
            /\ f[1] \in DOMAIN cli.pending \ System

\* Sampling starts from a directory that could be read in full: past that point the one
\* file that may be torn is the one being written, so that an earlier crash is noticed
\* and no schema is derived from the rest of a half-written directory.
OnlyFileBeingWrittenIsTorn ==
    cli.pc \in {"list", "sample", "writeSamples"} =>
        \A f \in FileNames : files[f] = Torn => f[2] = "json" /\ f[1] \in cli.writing

\* An undisturbed run adds every sampled top-level field to the configuration
SampledFieldsAdded ==
    Undisturbed =>
        \A c \in Collections : IsSampled(c) =>
            /\ Holds(files, c)
            /\ DOMAIN TopFields([SchemaIn(files, c) EXCEPT !.types = Updated(c)])
                    \subseteq DOMAIN TopFields(SchemaIn(files, c))

\* Re-introspection settles: without validators, once two runs and as many as nested types
\* are deep have been completed over an unchanged database, another one writes nothing.  (A
\* field that one run adds gets the description of its object type in the next; an object
\* type of a new collection that nothing refers to is dropped in the next.)
NoValidators == \A c \in Collections : validator[c] = NoValidator
ReintrospectionSettles ==
    Undisturbed /\ NoValidators /\ quiet > 1 /\ (\A d \in Depths : quiet > d) => files = before

\* Liveness: a run ends, done or failed, however the database behaves.
UpdateEnds == cli.pc # "idle" ~> cli.pc = "idle"

------------------------------------------------------------------------------
\* What the documentation says and the command does not do.

\* CHANGELOG.md:178: "added fields, either top-level or nested, will be added to existing
\* schema definitions", and CHANGELOG.md:180: fields that disappeared "will **not** be
\* removed from configurations", nested ones included.  So whatever object type a
\* configured or an added field names, if it was configured before the run or has just
\* been sampled it is defined in the schema the run leaves.
NestedTypesDefined ==
    Undisturbed /\ cli.skipValidators =>
        \A c \in Collections : IsSampled(c) /\ Holds(files, c) =>
            LET earlier == IF Holds(before, c) THEN DOMAIN SchemaIn(before, c).types ELSE {}
                named == {ObjectNameOf(t) : t \in {u \in TopTypes(SchemaIn(files, c)) : RefersToObject(u)}}
            IN  named \cap (earlier \cup DOMAIN Updated(c)) \subseteq DOMAIN SchemaIn(files, c).types
==============================================================================
