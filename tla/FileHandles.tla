---------------------------- MODULE FileHandles ----------------------------
(***************************************************************************)
(* What the library promises a process about file IDs, modes and           *)
(* definitions: an ID names one open file until it is closed; a call on a  *)
(* number that names none is answered with an error; a call the file's     *)
(* mode allows is carried out or fails, one the mode forbids is refused;   *)
(* the mode of a file and what is stored of its definitions change only by *)
(* a call that succeeds; definitions are stored when define mode is left   *)
(* and discarded when the file is aborted before.                          *)
(***************************************************************************)
EXTENDS Naturals, Sequences

CONSTANTS
    MaxFiles,   \* NC_MAX_NFILES
    Files,
    Absent, Empty   \* no such file; one without definitions

VARIABLES
    open,    \* open[id]: file, mode, whether it may be written, definitions
    stored,  \* stored[file]: the definitions on disk, Empty or Absent
    reply    \* the last call, the ID it was about and its answer

(* The calls that leave the mode alone, by what they need of the file. *)
Needs(call, f) ==
    CASE call = "set_fill"           -> f.write /\ f.mode = "define"
      [] call \in {"sync"}           -> f.mode # "define"
      [] call = "wait"               -> f.mode = "independent"
      [] call = "wait_all"           -> f.mode = "collective"
      [] call = "put"                -> f.write /\ f.mode = "independent"
      [] call \in {"put_all", "fill_var_rec"} -> f.write /\ f.mode = "collective"
      [] call = "get"                -> f.mode = "independent"
      [] call = "get_all"            -> f.mode = "collective"
      [] call = "iput"               -> f.write
      [] call = "iget"               -> TRUE

PlainCalls == {"set_fill", "sync", "wait", "wait_all", "put", "put_all", "fill_var_rec",
               "get", "get_all", "iput", "iget"}

(* A call that changes the mode: when it may, and what the mode becomes. *)
MayChange(call, f) ==
    CASE call = "enddef" -> f.mode = "define"
      [] call = "redef"  -> f.write /\ f.mode # "define"
      [] call \in {"begin_indep", "end_indep"} -> f.mode # "define"
NextMode(call) ==
    CASE call = "redef" -> "define" [] call = "begin_indep" -> "independent"
      [] OTHER -> "collective"
ModeCalls == {"redef", "enddef", "begin_indep", "end_indep"}

With(f, id, h) == [i \in DOMAIN f \cup {id} |-> IF i = id THEN h ELSE f[i]]
Without(f, id) == [i \in DOMAIN f \ {id} |-> f[i]]

Init == open = << >> /\ stored = [f \in Files |-> Absent] /\ reply = <<"none", 0, "ok">>

Create(f) ==
    \E id \in (0 .. MaxFiles - 1) \ DOMAIN open :
        /\ open' = With(open, id, [file |-> f, mode |-> "define", write |-> TRUE,
                                   vars |-> << >>])
        /\ stored' = [stored EXCEPT ![f] = Empty]
        /\ reply' = <<"create", id, "ok">>

Open(f) ==
    /\ stored[f] \notin {Absent, Empty}
    /\ \E id \in (0 .. MaxFiles - 1) \ DOMAIN open, w \in BOOLEAN :
        /\ open' = With(open, id, [file |-> f, mode |-> "collective", write |-> w,
                                   vars |-> stored[f]])
        /\ reply' = <<"open", id, "ok">>
    /\ UNCHANGED stored

(* A call that is not carried out leaves everything as it was; one on a    *)
(* number that names no file is never carried out.                         *)
NotDone ==
    /\ \/ DOMAIN open = 0 .. MaxFiles - 1 /\ reply'[3] = "toomany"
       \/ reply'[2] \notin DOMAIN open /\ reply'[3] = "badid"
       \/ reply'[3] = "failed"
    /\ UNCHANGED <<open, stored>>

PlainCall(id, call) ==
    /\ reply' = <<call, id, IF Needs(call, open[id]) THEN "ok" ELSE "refused">>
    /\ UNCHANGED <<open, stored>>

DefVar(id) ==
    IF open[id].mode = "define"
    THEN /\ \E v \in {"fixed", "record"} :
                open' = [open EXCEPT ![id].vars = Append(@, v)]
         /\ reply' = <<"def_var", id, "ok">> /\ UNCHANGED stored
    ELSE reply' = <<"def_var", id, "refused">> /\ UNCHANGED <<open, stored>>

ModeCall(id, call) ==
    IF MayChange(call, open[id])
    THEN /\ open' = [open EXCEPT ![id].mode = NextMode(call)]
         /\ stored' = IF call = "enddef"
                      THEN [stored EXCEPT ![open[id].file] = open[id].vars] ELSE stored
         /\ reply' = <<call, id, "ok">>
    ELSE reply' = <<call, id, "refused">> /\ UNCHANGED <<open, stored>>

(* The ID is free again whether or not the file could be closed properly. *)
Close(id) ==
    /\ open' = Without(open, id)
    /\ \/ /\ reply' = <<"close", id, "ok">>
          /\ stored' = [stored EXCEPT ![open[id].file] = open[id].vars]
       \/ /\ reply' = <<"close", id, "failed">> /\ open[id].mode = "define"
          /\ UNCHANGED stored

(* A file that was created and never left define mode is removed. *)
Abort(id) ==
    /\ open' = Without(open, id)
    /\ stored' = [stored EXCEPT ![open[id].file] = IF @ = Empty THEN Absent ELSE @]
    /\ reply' = <<"abort", id, "ok">>

Next ==
    \/ \E f \in Files : Create(f) \/ Open(f)
    \/ NotDone
    \/ \E id \in DOMAIN open :
         \/ \E call \in PlainCalls : PlainCall(id, call)
         \/ \E call \in ModeCalls : ModeCall(id, call)
         \/ DefVar(id) \/ Close(id) \/ Abort(id)

Spec == Init /\ [][Next]_<<open, stored, reply>>
=============================================================================
