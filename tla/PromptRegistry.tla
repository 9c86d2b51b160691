--------------------------- MODULE PromptRegistry ---------------------------
(***************************************************************************)
(* app/core/prompt_registry.py: the process-wide registry of prompt        *)
(* versions, loaded from the config file when it is first used.            *)
(*                                                                         *)
(* In an entry, complete says that no field is missing; weights are in     *)
(* tenths.  A file that cannot be read has no entries.                     *)
(***************************************************************************)
EXTENDS Integers, SequencesExt

PromptVersion == [version : STRING, weight : Nat]
PromptEntry == [prompt_id : STRING, versions : Seq(PromptVersion), complete : BOOLEAN]
ConfigFile == {f \in [status : {"missing", "unparsable", "read"}, entries : Seq(PromptEntry)] :
                 f.status # "read" => f.entries = <<>>}

EmptyRegistry == [loaded |-> FALSE, prompts |-> <<>>]

\* The first entry of the file that lacks a field; 0 if there is none.
FirstIncomplete(file) == SelectInSeq(file.entries, LAMBDA e : ~e.complete)

\* What load raises, if it is called and raises at all.
LoadError(registry, file) ==
    CASE registry.loaded \/ file.status = "missing" -> "none"
      [] file.status = "unparsable" -> "YAMLError"
      [] OTHER -> IF FirstIncomplete(file) = 0 THEN "none" ELSE "KeyError"

\* self.prompts after the entries have been registered one by one: of two with
\* the same prompt_id the later one stays.
Registered(prompts, entries) ==
    LET ids == {e.prompt_id : e \in ToSet(entries)}
        at(id) == {i \in DOMAIN entries : entries[i].prompt_id = id}
    IN  [id \in ids \cup DOMAIN prompts |->
            IF id \in ids THEN entries[Max(at(id))].versions ELSE prompts[id]]

\* Mutants, here and below: a bug that the definition after it could have.
load_MarksFirst(registry, file) ==      \* _loaded = True before the loop
    IF registry.loaded \/ file.status = "unparsable" THEN registry
    ELSE LET bad == FirstIncomplete(file)
             good == IF bad = 0 THEN file.entries ELSE SubSeq(file.entries, 1, bad - 1)
         IN  [loaded |-> TRUE, prompts |-> Registered(registry.prompts, good)]

\* load, unless the registry is loaded: entries are registered up to the first
\* incomplete one, and _loaded is set only when all of them are in.  A missing
\* file counts as an empty one.
load(registry, file) ==
    IF registry.loaded \/ file.status = "unparsable" THEN registry
    ELSE LET bad == FirstIncomplete(file)
             good == IF bad = 0 THEN file.entries ELSE SubSeq(file.entries, 1, bad - 1)
         IN  [loaded |-> bad = 0, prompts |-> Registered(registry.prompts, good)]

\* The versions that random.choices can draw in select_version("default").
select_version(registry, file) ==
    LET drawn == {v \in ToSet(load(registry, file).prompts["default"]) : v.weight > 0}
    IN  {v.version : v \in drawn}

\* What select_version("default") raises.  Without a positive weight
\* random.choices raises a ValueError.
SelectionError(registry, file) ==
    CASE LoadError(registry, file) # "none" -> LoadError(registry, file)
      [] OTHER -> IF "default" \notin DOMAIN load(registry, file).prompts THEN "KeyError"
                  ELSE IF select_version(registry, file) = {} THEN "ValueError" ELSE "none"
=============================================================================
