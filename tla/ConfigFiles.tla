----------------------------- MODULE ConfigFiles -----------------------------
(***************************************************************************)
(* The loaders of the shared YAML files (pick_offsets, dedup_thresholds):  *)
(* the candidates are tried in order (explicit path, environment, install, *)
(* source tree), the first that parses decides, and what it lacks comes    *)
(* from the defaults.  A file is [kind |-> "absent" | "broken"], or        *)
(* [kind |-> "yaml", data |-> a mapping of keys to mappings].              *)
(***************************************************************************)
EXTENDS Naturals, Sequences

CONSTANT NotANumber

Chosen(files) ==
  LET usable == { i \in DOMAIN files : files[i].kind = "yaml" }
  IN  IF usable = {} THEN 0 ELSE CHOOSE i \in usable : \A j \in usable : i <= j

(* _merge_axis: a value that is no number leaves the default of its key.   *)
Merge(defaults, source) ==
  LET given == { k \in DOMAIN source : source[k] # NotANumber }
  IN  [k \in DOMAIN defaults \cup given |-> IF k \in given THEN source[k] ELSE defaults[k]]

(* One mapping of the chosen file over its defaults.                       *)
Table(files, key, defaults) ==
  IF Chosen(files) = 0 \/ key \notin DOMAIN files[Chosen(files)].data THEN defaults
  ELSE Merge(defaults, files[Chosen(files)].data[key])
=============================================================================
