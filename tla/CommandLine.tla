----------------------------- MODULE CommandLine -----------------------------
(***************************************************************************)
(* parse_args of src/main.rs: from the arguments of the program to what    *)
(* the session does.  Arguments are strings, but for the name of the       *)
(* shared memory object, of which only the leading slash matters; a value  *)
(* that may be missing is a sequence of at most one element.               *)
(*                                                                         *)
(* The texts of errors and usage are left out, and so is the test whether  *)
(* stdout is a terminal.                                                   *)
(***************************************************************************)
EXTENDS Integers, SequencesExt

CONSTANTS
  Library,          (* paths of the hook libraries that exist              *)
  DefaultLibrary    (* where default_hook_library_path looks               *)

Switches(mode) ==
  {"--no-ui", "--no-color"} \cup (IF mode = "run" THEN {"--main-only", "--no-stack"} ELSE {})

Valued(mode) == {"--shm-name"} \cup (IF mode = "run" THEN {"--hook-lib"} ELSE {})

NoOptions == [on |-> {}, shm_name |-> << >>, hook_library |-> << >>, target |-> << >>,
              expect |-> "flag"]

(* One turn of the loop; `expect` is what the argument is taken for, and   *)
(* "nothing" after an unknown flag.                                        *)
Read(mode, o, arg) ==
  CASE o.expect = "nothing"    -> o
    [] o.expect = "target"     -> [o EXCEPT !.target = Append(@, arg)]
    [] o.expect = "--shm-name" -> [o EXCEPT !.shm_name = <<arg>>, !.expect = "flag"]
    [] o.expect = "--hook-lib" -> [o EXCEPT !.hook_library = <<arg>>, !.expect = "flag"]
    [] o.expect = "flag" ->
         CASE arg \in Switches(mode)     -> [o EXCEPT !.on = @ \cup {arg}]
           [] arg \in Valued(mode)       -> [o EXCEPT !.expect = arg]
           [] mode = "run" /\ arg = "--" -> [o EXCEPT !.expect = "target"]
           [] OTHER                      -> [o EXCEPT !.expect = "nothing"]

(* default_hook_library_path *)
DefaultFound == DefaultLibrary \in Library

(* next_string finds a value for every flag that wants one, the target of  *)
(* a run is not empty, and its default library exists, asked for or not:   *)
(* the argument of unwrap_or is evaluated first.                           *)
Complete(mode, o) ==
  /\ o.expect \in {"flag", "target"}
  /\ mode = "run" => o.target # << >> /\ DefaultFound

Outcome(what, mode, o) == [is |-> what, mode |-> mode, options |-> o]

Parse(args) ==
  IF args = << >> \/ Head(args) \in {"help", "--help", "-h"}
  THEN Outcome("help", "none", NoOptions)
  ELSE LET mode == Head(args)
           o    == FoldLeft(LAMBDA p, arg : Read(mode, p, arg), NoOptions, Tail(args))
       IN  IF mode \in {"run", "monitor"} /\ Complete(mode, o)
           THEN Outcome("session", mode, o)
           ELSE Outcome("error", mode, o)

HookLibrary(o) == IF o.hook_library = << >> THEN DefaultLibrary ELSE o.hook_library[1]

Name(slash, rest) == [slash |-> slash, rest |-> rest]

(* Mutant: no slash is added.                                              *)
NormalizedAsGiven(name) == name

(* normalize_shm_name *)
Normalized(name) == [name EXCEPT !.slash = TRUE]
=============================================================================
