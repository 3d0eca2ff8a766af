--------------------------- MODULE ManifestRules ---------------------------
(***************************************************************************)
(* Which manifests and model directories the parts of the system accept:   *)
(* build_manifest makes a manifest, ModelManifest.from_bytes reads one,    *)
(* validate_model_directory compares one with a directory, the S3 cache    *)
(* downloads what one lists, and the llama.cpp engine picks the file it    *)
(* declares.  Every part has its own rules for names, in its own words.    *)
(*                                                                         *)
(* A directory d is [files |-> a function from the paths of its files,     *)
(* the root's model-manifest.json excepted, to their bytes; dirs |-> the   *)
(* paths of its directories; links |-> those of its symbolic links].  A    *)
(* manifest m is [model_format, files], as in the code.  Nobody changes d  *)
(* meanwhile.                                                              *)
(***************************************************************************)
EXTENDS Naturals, Sequences

CONSTANTS
  Canonical,      \* paths not empty, not absolute, without ".", "..", "\", "//"
  ManifestNamed,  \* paths whose last part is model-manifest.json
  MarkerNamed,    \* those whose last part is .complete
  TokenizerNamed, \* those that start with "tokenizer"
  Suffix(_),      \* PurePath.suffix: from the last dot; "" without, or if it leads
  Lower(_),       \* str.lower
  Ends(_, _),     \* str.endswith
  Size(_), Sha256(_)

UNSAFE_SUFFIXES == {".bin", ".ckpt", ".pkl", ".pickle", ".pt", ".pth", ".py"}
ALLOWED_SUFFIXES == {".json", ".gguf", ".jinja", ".model", ".safetensors", ".tiktoken", ".txt"}
WeightSuffix == [safetensors |-> ".safetensors", gguf |-> ".gguf"]
OtherFormat == [safetensors |-> "gguf", gguf |-> "safetensors"]
Formats == {"safetensors", "gguf"}

(* What Python says of names: a path with one of these suffixes ends with *)
(* exactly that, and a name that is only ".complete" has none.            *)
NameLaws ==
  /\ \A p : Suffix(p) \in ALLOWED_SUFFIXES =>
       \A s \in ALLOWED_SUFFIXES : Ends(p, s) <=> Suffix(p) = s
  /\ Lower("") = ""
  /\ \A p \in MarkerNamed : Suffix(p) = ""
  /\ ".complete" \in MarkerNamed

-----------------------------------------------------------------------------
(* ModelManifest.                                                         *)

SafePath(p) ==  \* validate_relative_artifact_path
  /\ p \in Canonical
  /\ Lower(Suffix(p)) \notin UNSAFE_SUFFIXES
  /\ Lower(Suffix(p)) \in ALLOWED_SUFFIXES

Paths(m) == {m.files[i].path : i \in DOMAIN m.files}
Weights(paths, format) == {p \in paths : Ends(p, WeightSuffix[format])}

UniquePaths(m) ==
  \A i, j \in DOMAIN m.files : m.files[i].path = m.files[j].path => i = j

RequiredFiles(m) ==
  /\ Weights(Paths(m), OtherFormat[m.model_format]) = {}
  /\ IF m.model_format = "safetensors"
     THEN /\ "config.json" \in Paths(m)
          /\ Weights(Paths(m), "safetensors") # {}
          /\ Paths(m) \cap TokenizerNamed # {}
     ELSE \E p \in Paths(m) : Weights(Paths(m), "gguf") = {p}

Accepted(m) ==
  /\ m.model_format \in Formats
  /\ m.files # <<>> /\ \A p \in Paths(m) : SafePath(p)
  /\ UniquePaths(m) /\ RequiredFiles(m)

Matches(file, bytes) == file.size = Size(bytes) /\ file.sha256 = Sha256(bytes)

NoSymlinks(d) == d.links = {}

-----------------------------------------------------------------------------
(* build_manifest makes m of d; wanted is the format asked for, or "none". *)

Listed(d) == DOMAIN d.files \ ManifestNamed

Builds(d, wanted, m) ==
  /\ NoSymlinks(d)
  /\ \A p \in Listed(d) : SafePath(p)
  /\ Paths(m) = Listed(d) /\ UniquePaths(m)
  /\ \A i \in DOMAIN m.files : Matches(m.files[i], d.files[m.files[i].path])
  /\ IF wanted # "none" THEN m.model_format = wanted
     ELSE {f \in Formats : Weights(Paths(m), f) # {}} = {m.model_format}
  /\ Accepted(m)

-----------------------------------------------------------------------------
(* validate_model_directory, for the manifest m that d holds.             *)

Counted(d) == DOMAIN d.files \ (ManifestNamed \cup MarkerNamed)

Validates(d, m, strict) ==
  /\ NoSymlinks(d) /\ Accepted(m)
  /\ \A p \in Counted(d) :
       /\ Lower(Suffix(p)) \notin UNSAFE_SUFFIXES
       /\ Lower(Suffix(p)) # WeightSuffix[OtherFormat[m.model_format]]
  /\ \A i \in DOMAIN m.files :
       /\ m.files[i].path \in DOMAIN d.files
       /\ Matches(m.files[i], d.files[m.files[i].path])
  /\ strict => Counted(d) \subseteq Paths(m)

-----------------------------------------------------------------------------
(* S3ModelStorage.resolve: every artifact passes its check; the temporary *)
(* directory it fills; the directory with its completion marker.          *)

Downloads(objects, m) ==
  \A i \in DOMAIN m.files : Matches(m.files[i], objects[m.files[i].path])

Filled(objects, m, dirs) ==
  [files |-> [p \in Paths(m) |-> objects[p]], dirs |-> dirs, links |-> {}]

Marked(d, text) ==
  [files |-> [p \in DOMAIN d.files \cup {".complete"} |->
                IF p = ".complete" THEN text ELSE d.files[p]],
   dirs |-> d.dirs, links |-> d.links]

(* LlamaCppInferenceEngine.load takes the only path that rglob finds.     *)
Takes(d, m, p) ==
  /\ {q \in DOMAIN d.files \cup d.dirs : Ends(q, ".gguf")} = {p}
  /\ m.model_format = "gguf"
=============================================================================
