----------------------------- MODULE ConfigLoader -----------------------------
(***************************************************************************)
(* config_loader_t of config_loader.hpp: load_from_json, validate_config, *)
(* parse_volume, load_from_json_string and the two save functions, called *)
(* in any order by one caller that owns a config_t, a json_t and a string *)
(* (lines 56-60: static functions that take these by reference).          *)
(*                                                                         *)
(* A JSON value is a record tagged t: "absent" (no such key), "string",   *)
(* "unsigned", "integer" (negative), "boolean", "null", "array" or        *)
(* "object".  A document is the top-level value with its four keys.       *)
(* Version and size strings are the lexeme sequences of ConfigParse;      *)
(* paths are plain strings.  A serialized document is the document itself *)
(* (dump and parse are inverse on these values); the caller's initial     *)
(* empty string is not JSON.                                               *)
(***************************************************************************)
EXTENDS ConfigParse

CONSTANTS Docs,      \* the documents the caller may load
          MaxCalls   \* bound on the number of calls

VARIABLES
  config,     \* the caller's config_t
  json,       \* the caller's json_t
  text,       \* the caller's std::string
  status,     \* the status of the last call
  calls,      \* the number of calls made
  last        \* the last call, its input and the config before it (history)

vars == <<config, json, text, status, calls, last>>

Absent == [t |-> "absent"]
JStr(x) == [t |-> "string", s |-> x]
JUnsigned(n) == [t |-> "unsigned", n |-> n]
NullDoc == [kind |-> "null", version |-> Absent, directory |-> Absent,
            engine_config_path |-> Absent, data_directories |-> Absent]

OK              == "ok"
InvalidVersion  == "Invalid version format"
NotSupported    == "Version not supported"
EmptyPath       == "Empty data directory path"
InvalidVolume   == "Invalid volume format"
InvalidDisks    == "Invalid data directories config"
Exception       == "Exception occurred: Invalid json config file"
Terminated      == "std::terminate"        \* the process is ended
Escapes         == "parse_error escapes"   \* the exception leaves the call

(* current_major_version_k and current_minor_version_k (lines 52-53). *)
CurrentMajorVersion == 1
CurrentMinorVersion == 0

DefaultDirectory == "./tmp/ukv/"
FreshConfig == [directory |-> "", engine_config_path |-> "", data_directories |-> <<>>]

(* json.value(key, d) read as a string (lines 77, 78, 85, 139). *)
StrValue(v, d) ==
  CASE v.t = "absent" -> [ok |-> TRUE, val |-> d]
    [] v.t = "string" -> [ok |-> TRUE, val |-> v.s]
    [] OTHER          -> [ok |-> FALSE]            \* type_error 302

(* j_disk.value("max_size", unlimited_space_k) read as a size_t (line 86). *)
SizeValue(v) ==
  CASE v.t = "absent"   -> [ok |-> TRUE, val |-> SizeMax]
    [] v.t = "unsigned" -> [ok |-> TRUE, val |-> v.n]
    [] v.t = "integer"  -> [ok |-> TRUE, val |-> v.n % 2^SizeBits]
    [] v.t = "boolean"  -> [ok |-> TRUE, val |-> IF v.b THEN 1 ELSE 0]
    [] OTHER            -> [ok |-> FALSE]          \* type_error 302

(* Mutant of ParseVolume: a missing key resets the size to 0. *)
ParseVolumeZeroDefault(v, bytes) ==
  CASE v.t = "absent"   -> {[ok |-> TRUE, bytes |-> 0]}
    [] v.t = "unsigned" -> {[ok |-> TRUE, bytes |-> v.n]}
    [] v.t = "string"   -> ParseBytes(v.s)
    [] OTHER            -> {[ok |-> FALSE]}

(***************************************************************************)
(* parse_volume (lines 176-195): a missing key keeps bytes, an unsigned   *)
(* number is taken, a string goes to parse_bytes, any other type fails.   *)
(***************************************************************************)
ParseVolume(v, bytes) ==
  CASE v.t = "absent"   -> {[ok |-> TRUE, bytes |-> bytes]}
    [] v.t = "unsigned" -> {[ok |-> TRUE, bytes |-> v.n]}
    [] v.t = "string"   -> ParseBytes(v.s)
    [] OTHER            -> {[ok |-> FALSE]}

(***************************************************************************)
(* validate_config (lines 137-147).  It is noexcept: the type_error that  *)
(* value() throws for a non-object document or a non-string version ends  *)
(* the process.                                                            *)
(***************************************************************************)
ValidateConfig(j) ==
  LET v == StrValue(j.version, <<>>)
      p == ParseVersion(v.val)
  IN  CASE j.kind # "object" \/ ~v.ok     -> Terminated
        [] ~p.ok                          -> InvalidVersion
        [] p.major # CurrentMajorVersion \/ p.minor # CurrentMinorVersion
                                          -> NotSupported
        [] OTHER                          -> OK

(* One iteration of the disk loop (lines 84-91): the outcomes. *)
LoadDisk(jd) ==
  LET p == StrValue(jd.path, "")
      m == SizeValue(jd.max_size)
  IN  IF jd.t # "object" \/ ~p.ok \/ ~m.ok THEN {[status |-> Exception]}
      ELSE IF p.val = "" THEN {[status |-> EmptyPath]}
      ELSE {IF r.ok THEN [status |-> OK, disk |-> [path |-> p.val, max_size |-> r.bytes]]
                    ELSE [status |-> InvalidVolume] : r \in ParseVolume(jd.max_size, m.val)}

(* The loop of lines 83-92: push each disk, return at the first error. *)
RECURSIVE LoadDisks(_, _)
LoadDisks(ds, c) ==
  IF ds = <<>> THEN {[status |-> OK, config |-> c]}
  ELSE UNION {IF r.status = OK
              THEN LoadDisks(Tail(ds), [c EXCEPT !.data_directories = Append(@, r.disk)])
              ELSE {[status |-> r.status, config |-> c]} : r \in LoadDisk(Head(ds))}

(***************************************************************************)
(* load_from_json (lines 70-103): the outcomes, status and the config     *)
(* left behind.  Fields are written as they are read.                     *)
(***************************************************************************)
LoadFromJson(j, c) ==
  LET vs == ValidateConfig(j)
      d  == StrValue(j.directory, DefaultDirectory)
      c1 == [c EXCEPT !.directory = d.val]
      e  == StrValue(j.engine_config_path, "")
      c2 == [c1 EXCEPT !.engine_config_path = e.val]
  IN  CASE vs # OK    -> {[status |-> vs, config |-> c]}
        [] ~d.ok      -> {[status |-> Exception, config |-> c]}
        [] ~e.ok      -> {[status |-> Exception, config |-> c1]}
        [] j.data_directories.t = "absent" -> {[status |-> OK, config |-> c2]}
        [] j.data_directories.t = "array"  -> LoadDisks(j.data_directories.elems, c2)
        [] OTHER      -> {[status |-> InvalidDisks, config |-> c2]}

(* load_from_json_string (lines 105-108): json_t::parse throws outside the try. *)
LoadFromJsonString(t, c) ==
  IF ~t.parses THEN {[status |-> Escapes, config |-> c]} ELSE LoadFromJson(t.doc, c)

(* save_to_json (lines 110-126): clear, then the three keys. *)
SaveToJson(c) ==
  [kind |-> "object", version |-> Absent,
   directory |-> JStr(c.directory),
   engine_config_path |-> JStr(c.engine_config_path),
   data_directories |->
     [t |-> "array",
      elems |-> [i \in 1..Len(c.data_directories) |->
                   [t |-> "object", path |-> JStr(c.data_directories[i].path),
                    max_size |-> JUnsigned(c.data_directories[i].max_size)]]]]

(* save_to_json_string (lines 128-135): save_to_json, then serialize. *)
SaveToJsonString(c) == [parses |-> TRUE, doc |-> SaveToJson(c)]
-----------------------------------------------------------------------------
(* The caller. *)

Init ==
  /\ config = FreshConfig
  /\ json = NullDoc
  /\ text = [parses |-> FALSE]
  /\ status = OK
  /\ calls = 0
  /\ last = [op |-> "none", doc |-> NullDoc, from |-> FreshConfig]

Call == status # Terminated /\ calls < MaxCalls /\ calls' = calls + 1

(* load_from_json(j, config) on an input document or the caller's json. *)
LoadFromJsonCall ==
  /\ Call
  /\ \E j \in Docs \cup {json} : \E r \in LoadFromJson(j, config) :
       /\ config' = r.config /\ status' = r.status
       /\ last' = [op |-> "load", doc |-> j, from |-> config]
  /\ UNCHANGED <<json, text>>

(* load_from_json_string(text, config). *)
LoadFromJsonStringCall ==
  /\ Call
  /\ \E r \in LoadFromJsonString(text, config) :
       /\ config' = r.config /\ status' = r.status
       /\ last' = [op |-> "load", doc |-> IF text.parses THEN text.doc ELSE NullDoc,
                   from |-> config]
  /\ UNCHANGED <<json, text>>

(* save_to_json(config, json). *)
SaveToJsonCall ==
  /\ Call
  /\ json' = SaveToJson(config)
  /\ status' = OK
  /\ last' = [op |-> "save", doc |-> json', from |-> config]
  /\ UNCHANGED <<config, text>>

(* save_to_json_string(config, text); its `return true` is success. *)
SaveToJsonStringCall ==
  /\ Call
  /\ text' = SaveToJsonString(config)
  /\ status' = OK
  /\ last' = [op |-> "save", doc |-> text'.doc, from |-> config]
  /\ UNCHANGED <<config, json>>

(* The caller starts over with a default-constructed config_t. *)
NewConfig ==
  /\ Call
  /\ config' = FreshConfig
  /\ last' = [op |-> "new", doc |-> NullDoc, from |-> config]
  /\ UNCHANGED <<json, text, status>>

Next == LoadFromJsonCall \/ LoadFromJsonStringCall \/ SaveToJsonCall
          \/ SaveToJsonStringCall \/ NewConfig

Spec == Init /\ [][Next]_vars
-----------------------------------------------------------------------------
(* Properties. *)

(* The config a successful load into a fresh config_t must hold. *)
Expected(j) ==
  LET el == j.data_directories.elems
  IN  [directory |-> IF j.directory.t = "string" THEN j.directory.s ELSE DefaultDirectory,
       engine_config_path |->
         IF j.engine_config_path.t = "string" THEN j.engine_config_path.s ELSE "",
       data_directories |->
         IF j.data_directories.t # "array" THEN <<>>
         ELSE [i \in 1..Len(el) |->
                 [path |-> el[i].path.s,
                  max_size |-> IF el[i].max_size.t = "unsigned"
                               THEN el[i].max_size.n ELSE SizeMax]]]

(***************************************************************************)
(* A load into a fresh config that returns success leaves exactly the     *)
(* document's settings: its directory or the default, its engine path,    *)
(* and one disk per array element in order, with its max_size or         *)
(* unlimited_space_k.  max_size is written twice per disk (line 86, then  *)
(* parse_volume at line 89) and the loop pushes one disk per element.     *)
(***************************************************************************)
LoadMatchesDocument ==
  last.op = "load" /\ last.from = FreshConfig /\ status = OK
    => config = Expected(last.doc)

(***************************************************************************)
(* A load that returns an error status leaves the caller's config as it   *)
(* was: the status is the caller's only sign that nothing was loaded.     *)
(* load_from_json writes directory and pushes disks before later checks   *)
(* fail (lines 77-91).                                                     *)
(***************************************************************************)
ErrorLeavesConfigUnchanged ==
  last.op = "load" /\ status # OK => config = last.from

(***************************************************************************)
(* Every document yields a status: load_from_json catches every exception *)
(* (line 98) and turns it into "Exception occurred: Invalid json config   *)
(* file".  validate_config is noexcept and calls json.value (line 139).   *)
(***************************************************************************)
NoTerminate == status # Terminated

(* A document in the format load_from_json reads: version 1.0, string     *)
(* paths, and disks whose max_size is absent, a number or a size string.  *)
WellFormed(j) ==
  LET dd == j.data_directories
      SizeOK(v) == \/ v.t \in {"absent", "unsigned"}
                   \/ v.t = "string" /\ StatedSize(v.s).valid
                      /\ StatedSize(v.s).value[1] >= 0
                      /\ ~RatGreater(StatedSize(v.s).value, SizeMax)
  IN  /\ j.kind = "object"
      /\ j.version = JStr(<<Num(CurrentMajorVersion), Dot, Num(CurrentMinorVersion)>>)
      /\ j.directory.t \in {"absent", "string"}
      /\ j.engine_config_path.t \in {"absent", "string"}
      /\ \/ dd.t = "absent"
         \/ dd.t = "array" /\
           \A i \in 1..Len(dd.elems) :
             /\ dd.elems[i].t = "object"
             /\ dd.elems[i].path.t = "string" /\ dd.elems[i].path.s # ""
             /\ SizeOK(dd.elems[i].max_size)

(***************************************************************************)
(* Every well-formed document loads.  parse_volume has a case for a       *)
(* max_size string that it hands to parse_bytes (lines 187-190).          *)
(***************************************************************************)
WellFormedLoads ==
  last.op = "load" /\ WellFormed(last.doc) => status = OK
=============================================================================
