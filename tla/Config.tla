------------------------------- MODULE Config --------------------------------
(***************************************************************************)
(* The configuration of comfollower and of the aggregator: the options, and *)
(* then the file, read as the events libyaml makes of it by functions that  *)
(* call one another and share the place in the stream: load_config_file,    *)
(* _pick_global, _pick_patterns, _pick_pattern_entry (or, in the            *)
(* aggregator, _pick_aggregate_context).                                    *)
(*                                                                         *)
(* A file is a sequence of settings as its author meant them; Events is     *)
(* what libyaml says of it, and the functions never see more than that.     *)
(***************************************************************************)
EXTENDS Naturals, Sequences, SequencesExt

CONSTANTS
    Files,    \* the files there may be
    Options,  \* for each program, what its command line may say
    Matches   \* the pairs of a pattern and a name that fnmatch agrees on

Programs == {"follower", "aggregator"}

(* What the top of a file may set, "patterns" aside, and what an entry may.  *)
Settings(p) ==
    IF p = "follower" THEN {"server", "port", "controlPath", "waitingSeconds", "waiting"}
    ELSE {"logdir", "port", "hostnameLookups"}
Fields(p) == {"path", "displayName", "rotate", "timestamp"}
             \cup IF p = "follower" THEN {} ELSE {"mode"}

(* An item of a file: a key with a scalar, with entries (each a sequence of  *)
(* keys with scalars), with nothing, or with a mapping.                      *)
KeyScalar == [key : STRING, kind : {"scalar"}, value : STRING]
FileItem  == KeyScalar
             \cup [key : STRING, kind : {"entries"}, value : Seq(Seq(KeyScalar))]
             \cup [key : STRING, kind : {"nothing"}, value : {<< >>}]
             \cup [key : STRING, kind : {"nested"}, value : Seq(KeyScalar)]

ASSUME FilesAssumption == Files \subseteq Seq(FileItem)

VARIABLES
    prog,    \* the program
    file,    \* its file
    good,    \* is the file whole, or is there an error in it?
    stream,  \* the events libyaml makes of it
    args,    \* the command line
    pc,      \* "main", the function that reads, "done", or how the process ended
    pos,     \* events read
    set,     \* the settings, in the globals
    list,    \* g_config_patterns, or g_config_aggregate_context_list
    li,      \* _pick_patterns's list
    entry    \* the entry that is read

input == <<prog, file, good, stream, args>>
vars  == <<input, pc, pos, set, list, li, entry>>

----------------------------------------------------------------------------
(* libyaml. *)

Scalar(v) == [type |-> "scalar", value |-> v]
Mark(t)   == [type |-> t, value |-> ""]

Mapping(pairs) ==
    <<Mark("map")>>
    \o FlattenSeq([i \in DOMAIN pairs |-> <<Scalar(pairs[i].key), Scalar(pairs[i].value)>>])
    \o <<Mark("mapEnd")>>

ItemEvents(item) ==
    <<Scalar(item.key)>> \o
    CASE item.kind = "scalar"  -> <<Scalar(item.value)>>
      [] item.kind = "nothing" -> <<Scalar("")>>
      [] item.kind = "nested"  -> Mapping(item.value)
      [] item.kind = "entries" ->
             <<Mark("seq")>>
             \o FlattenSeq([i \in DOMAIN item.value |-> Mapping(item.value[i])])
             \o <<Mark("seqEnd")>>

Events(f) ==
    <<Mark("start"), Mark("document"), Mark("map")>>
    \o FlattenSeq([i \in DOMAIN f |-> ItemEvents(f[i])])
    \o <<Mark("mapEnd"), Mark("documentEnd"), Mark("end")>>

(* yaml_parser_parse, for the k-th time from here: a parser that has failed, *)
(* or is at the end, succeeds ever after, with an event of no type.          *)
Event(k) == IF pos + k <= Len(stream) THEN stream[pos + k] ELSE Mark("none")

Reads(k) == pos' = IF pos + k <= Len(stream) THEN pos + k ELSE Len(stream)

----------------------------------------------------------------------------
(* The two programs. *)

Flag(v) == IF v = "true" THEN "yes" ELSE "no"

Modes == {"both", "separate", "merge"}

FollowerDefaults ==
    [server |-> "", port |-> "0", controlPath |-> "", waitingSeconds |-> "1"]
AggregatorDefaults == [logdir |-> "", port |-> "0", hostnameLookups |-> "no"]
Defaults(p) == IF p = "follower" THEN FollowerDefaults ELSE AggregatorDefaults

(* What the command line says wins over what holds without it. *)
Chosen(given, defaults) ==
    [k \in DOMAIN defaults |-> IF k \in DOMAIN given THEN given[k] ELSE defaults[k]]

(* One setting has two keys. *)
Setting(k) == IF k = "waiting" THEN "waitingSeconds" ELSE k

FollowerSetting(k, v) == [set EXCEPT ![Setting(k)] = v]
AggregatorSetting(k, v) == [set EXCEPT ![k] = IF k = "hostnameLookups" THEN Flag(v) ELSE v]
Assigned(p, k, v) == IF p = "follower" THEN FollowerSetting(k, v) ELSE AggregatorSetting(k, v)

FollowerEntry == [path |-> "", displayName |-> "", rotate |-> "no", timestamp |-> "no"]
AggregatorEntry ==
    [path |-> "", displayName |-> "", rotate |-> "yes", timestamp |-> "no", mode |-> "both"]
NewEntry(p) == IF p = "follower" THEN FollowerEntry ELSE AggregatorEntry

FollowerField(e, k, v) ==
    [e EXCEPT ![k] = IF k \in {"rotate", "timestamp"} THEN Flag(v) ELSE v]
AggregatorField(e, k, v) ==
    [e EXCEPT ![k] = IF k \in {"rotate", "timestamp"} THEN Flag(v)
                     ELSE IF k = "mode" /\ v \notin Modes THEN @
                     ELSE v]
Field(p, e, k, v) == IF p = "follower" THEN FollowerField(e, k, v) ELSE AggregatorField(e, k, v)

(* Mutant: the aggregator does not turn its list round. *)
MutantAggregatorList(entries) == entries

(* az_list_add puts each entry before those it has. *)
FollowerList(entries) == entries
AggregatorList(entries) == Reverse(entries)
ListOf(p, entries) == IF p = "follower" THEN FollowerList(entries) ELSE AggregatorList(entries)

Init ==
    /\ prog \in Programs
    /\ file \in Files
    /\ good \in BOOLEAN
    /\ LET events == Events(file) IN
           IF good THEN stream = events
           ELSE \E n \in 0..(Len(events) - 1) :
                    stream = SubSeq(events, 1, n) \o <<Mark("failure")>>
    /\ args \in Options[prog]
    /\ pc = "main"
    /\ pos = 0
    /\ set = Defaults(prog)
    /\ list = << >> /\ li = << >>
    /\ entry = FollowerEntry

----------------------------------------------------------------------------
(* main's options come first; a file that cannot be opened is none. *)
ReadOptions(p) ==
    /\ prog = p /\ pc = "main"
    /\ set' = Chosen(args, set)
    /\ pc' \in {"load", "loaded"}
    /\ UNCHANGED <<input, pos, list, li, entry>>

(* Mutant: an error does not end the reading. *)
MutantLoadConfigFile(p) ==
    /\ prog = p /\ pc = "load"
    /\ pc' = CASE Event(1).type = "end" -> "loaded"
               [] Event(1).type = "map" -> "global"
               [] OTHER -> "load"
    /\ Reads(1)
    /\ UNCHANGED <<input, set, list, li, entry>>

(* load_config_file: any mapping is taken for the one that holds the settings. *)
LoadConfigFile(p) ==
    /\ prog = p /\ pc = "load"
    /\ pc' = CASE Event(1).type \in {"failure", "end"} -> "loaded"
               [] Event(1).type = "map" -> "global"
               [] OTHER -> "load"
    /\ Reads(1)
    /\ UNCHANGED <<input, set, list, li, entry>>

(* _pick_global: to the first event that is no scalar. *)
LeaveGlobal(p) ==
    /\ prog = p /\ pc = "global"
    /\ Event(1).type # "scalar"
    /\ pc' = "load"
    /\ Reads(1)
    /\ UNCHANGED <<input, set, list, li, entry>>

(* The event after a key it knows is its value, whatever it is. *)
PickSetting(p) ==
    /\ prog = p /\ pc = "global"
    /\ Event(1).type = "scalar" /\ Event(1).value \in Settings(p)
    /\ pc' = CASE Event(2).type = "scalar"  -> "global"
               [] Event(2).type = "failure" -> "load"
               [] OTHER                     -> "crashed"
    /\ set' = IF Event(2).type = "scalar" THEN Assigned(p, Event(1).value, Event(2).value) ELSE set
    /\ Reads(2)
    /\ UNCHANGED <<input, list, li, entry>>

(* Of a key it does not know the value is left, to be read as a key. *)
PickUnknown(p) ==
    /\ prog = p /\ pc = "global"
    /\ Event(1).type = "scalar" /\ Event(1).value \notin Settings(p) \cup {"patterns"}
    /\ Reads(1)
    /\ UNCHANGED <<input, pc, set, list, li, entry>>

StartPatterns(p, may) ==
    /\ prog = p /\ pc = "global"
    /\ Event(1) = Scalar("patterns")
    /\ pc' = IF may THEN "patterns" ELSE "crashed"
    /\ li' = << >>
    /\ Reads(1)
    /\ UNCHANGED <<input, set, list, entry>>

(* _pick_patterns: to the end of a sequence, skipping what is no mapping. *)
PickPatterns(p) ==
    /\ prog = p /\ pc = "patterns"
    /\ CASE Event(1).type \in {"failure", "seqEnd"} ->
               /\ list' = ListOf(p, li)
               /\ pc' = "global"
               /\ UNCHANGED entry
         [] Event(1).type = "map" ->
               /\ entry' = NewEntry(p)
               /\ pc' = "entry"
               /\ UNCHANGED list
         [] OTHER -> UNCHANGED <<list, pc, entry>>
    /\ Reads(1)
    /\ UNCHANGED <<input, set, li>>

(* _pick_pattern_entry, _pick_aggregate_context: a key, with its value, ... *)
PickField(p) ==
    /\ prog = p /\ pc = "entry"
    /\ Event(1).type = "scalar" /\ Event(2).type = "scalar"
    /\ entry' = IF Event(1).value \in Fields(p)
                THEN Field(p, entry, Event(1).value, Event(2).value) ELSE entry
    /\ Reads(2)
    /\ UNCHANGED <<input, pc, set, list, li>>

(* ... or the end of a mapping or of all, which makes it an entry of the list. *)
EndEntry(p) ==
    LET n == IF Event(1).type = "scalar" THEN 2 ELSE 1 IN
    /\ prog = p /\ pc = "entry"
    /\ Event(n).type \in {"failure"} \cup IF n = 1 THEN {"mapEnd"} ELSE {}
    /\ li' = <<entry>> \o li
    /\ pc' = "patterns"
    /\ Reads(n)
    /\ UNCHANGED <<input, set, list, entry>>

(* comfollower goes on only if it knows its aggregator. *)
StartUp(p) ==
    /\ prog = p /\ pc = "loaded"
    /\ pc' = IF p = "follower" /\ set["server"] = "" THEN "exited" ELSE "done"
    /\ UNCHANGED <<input, pos, set, list, li, entry>>

FollowerNext ==
    LET p == "follower" IN
    \/ ReadOptions(p) \/ LoadConfigFile(p)
    \/ PickSetting(p) \/ PickUnknown(p) \/ LeaveGlobal(p)
    \/ StartPatterns(p, TRUE) \/ PickPatterns(p)
    \/ PickField(p) \/ EndEntry(p)
    \/ StartUp(p)

AggregatorNext ==
    LET p == "aggregator" IN
    \/ ReadOptions(p) \/ LoadConfigFile(p)
    \/ PickSetting(p) \/ PickUnknown(p) \/ LeaveGlobal(p)
    \/ StartPatterns(p, list = << >>) \/ PickPatterns(p)
    \/ PickField(p) \/ EndEntry(p)
    \/ StartUp(p)

Next == FollowerNext \/ AggregatorNext

Spec == Init /\ [][Next]_vars /\ WF_vars(Next)

(* __find_aggregate_context: the first whose path the name matches. *)
FindContext(entries, name) ==
    SelectInSeq(entries, LAMBDA e : <<e.path, name>> \in Matches)

----------------------------------------------------------------------------
Ended == {"done", "exited", "crashed"}

(* What a sequence of keys and scalars means, given what holds without it:   *)
(* the last of several settings of one key, but for a mode there is not.     *)
Meant(pairs, defaults, Value(_, _)) ==
    [k \in DOMAIN defaults |->
        LET i == SelectLastInSeq(pairs, LAMBDA x :
                    Setting(x.key) = k /\ (k = "mode" => x.value \in Modes)) IN
        IF i = 0 THEN defaults[k] ELSE Value(k, pairs[i].value)]

MeantValue(k, v) == IF k \in {"rotate", "timestamp", "hostnameLookups"} THEN Flag(v) ELSE v

MeantEntries ==
    LET i == SelectInSeq(file, LAMBDA x : x.key = "patterns")
    IN  IF i = 0 THEN << >>
        ELSE [j \in DOMAIN file[i].value |->
                 Meant(file[i].value[j], NewEntry(prog), MeantValue)]

(* Every key has the kind of value it should have; one the program does not  *)
(* know has a scalar that is no key either; patterns come once.              *)
Sensible ==
    /\ \A i \in DOMAIN file :
          IF file[i].key = "patterns" THEN file[i].kind = "entries"
          ELSE /\ file[i].kind = "scalar"
               /\ \/ file[i].key \in Settings(prog)
                  \/ file[i].value \notin Settings(prog) \cup {"patterns"}
    /\ \A i, j \in DOMAIN file : file[i].key = "patterns" /\ file[j].key = "patterns" => i = j

(* A sensible file is read as it is meant: its settings win over the         *)
(* options, unknown ones do no harm, no entry is lost, and the aggregator    *)
(* files a name under the first entry that fits it.                          *)
ReadsAsMeant ==
    pc \in Ended /\ pos > 0 /\ Sensible /\ good =>
        /\ set = Meant(file, Chosen(args, Defaults(prog)), MeantValue)
        /\ Range(list) = Range(MeantEntries)
        /\ prog = "aggregator" =>
               \A m \in Matches : FindContext(list, m[2]) = FindContext(MeantEntries, m[2])

(* The error is outside the settings, or there is none. *)
BrokenInside == ~good /\ Len(stream) \in 4..(Len(Events(file)) - 2)

SeemsPatterns(item) ==
    \/ item.key = "patterns" /\ item.kind # "entries"
    \/ item.kind = "scalar" /\ item.value = "patterns"

(* The start-up comes to an end, whatever else the file holds, but for two   *)
(* kinds of files on which the parser is asked for ever: one that is broken  *)
(* inside the settings, and one whose patterns are no sequence.              *)
LoadEnds ==
    ~BrokenInside /\ (\A i \in DOMAIN file : ~SeemsPatterns(file[i])) ~> pc \in Ended
=============================================================================
