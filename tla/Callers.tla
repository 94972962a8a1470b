------------------------------- MODULE Callers -------------------------------
(***************************************************************************)
(* Who reads: igbinary_unserialize() called from PHP, APCu fetching an     *)
(* entry, and the session module restoring $_SESSION.  Each runs the       *)
(* reader of Unserialize and does something else with what it leaves.      *)
(***************************************************************************)
EXTENDS Unserialize

VARIABLES
    caller,     \* "function", "apcu", "session"
    returned,   \* "nothing" yet, "value", "null", "false", "success", "failure"
    session     \* $_SESSION, as pairs of a name and a value

cvars == << caller, returned, session >>
allvars == << vars, cvars >>

CallersInit ==
    /\ Init
    /\ caller \in {"function", "apcu", "session"}
    /\ returned = "nothing" /\ session = {}

\* no input: the function and the session module return without reading
Skips == input = << >> /\ caller \in {"function", "session"}
ReturnEmpty ==
    /\ Skips /\ returned = "nothing"
    /\ returned' = IF caller = "function" THEN "false" ELSE "success"
    /\ UNCHANGED << vars, caller, session >>

\* igbinary_unserialize
Unserialize ==
    /\ caller # "session" /\ ~Skips /\ Next
    /\ UNCHANGED cvars

\* PS_SERIALIZER_DECODE_FUNC: what follows the first value is not looked at
CallsForPrefix ==
    /\ result = "reading" /\ agenda = << >> /\ More
    /\ result' = "calling"
    /\ UNCHANGED << input, pos, out, made, agenda, dstrings, drefs, deferred, dtors, calls >>
Decode ==
    /\ caller = "session" /\ ~Skips
    /\ ReadZval \/ DeferCall \/ CallsForPrefix \/ FinishDeferredCalls \/ Deinit
    /\ UNCHANGED cvars

Ended(by, how) == caller \in by /\ result = how /\ returned = "nothing"
Release == out' = Put(out, << 1, 1 >>, Null)
UnchangedButOut == UNCHANGED << input, pos, made, agenda, dstrings, drefs, deferred, dtors, calls, result >>

ReturnValue ==
    /\ Ended({"function", "apcu"}, "done")
    /\ returned' = "value"
    /\ UNCHANGED << vars, caller, session >>

\* mutant: the partly built value is returned with the failure
ReturnPart ==
    /\ Ended({"function", "apcu"}, "error")
    /\ returned' = "null"
    /\ UNCHANGED << vars, caller, session >>
\* zval_ptr_dtor on what has been built, and null in its place
ReturnNull ==
    /\ Ended({"function", "apcu"}, "error")
    /\ Release
    /\ returned' = "null"
    /\ UnchangedButOut /\ UNCHANGED << caller, session >>

\* the session module: nobody releases what a failed read has built
DecodeFails ==
    /\ Ended({"session"}, "error")
    /\ returned' = "failure"
    /\ UNCHANGED << vars, caller, session >>

TopValue == out[1].elems[1].v
NotTable ==
    /\ Ended({"session"}, "done") /\ TopValue.t \notin {"arr", "obj"}
    /\ Release
    /\ returned' = "failure"
    /\ UnchangedButOut /\ UNCHANGED << caller, session >>

Named(c) == {e \in {c.elems[i] : i \in DOMAIN c.elems} : e.k.t = "str" /\ e.v # Undef}
\* mutant: the variables are set before it is known whether a call threw
SetVariablesAnyway ==
    /\ caller = "session" /\ result \in {"done", "error"} /\ returned = "nothing"
    /\ TopValue.t \in {"arr", "obj"}
    /\ session' = {<< e.k.v, e.v >> : e \in Named(out[TopValue.v])}
    /\ Release
    /\ returned' = "success"
    /\ UnchangedButOut /\ UNCHANGED caller
\* php_set_session_var for each named entry; integer keys are passed over
SetVariables ==
    /\ Ended({"session"}, "done") /\ TopValue.t \in {"arr", "obj"}
    /\ session' = {<< e.k.v, e.v >> : e \in Named(out[TopValue.v])}
    /\ Release
    /\ returned' = "success"
    /\ UnchangedButOut /\ UNCHANGED caller

CallersNext ==
    \/ ReturnEmpty \/ Unserialize \/ Decode
    \/ ReturnValue \/ ReturnNull \/ DecodeFails \/ NotTable \/ SetVariables

CallersSpec == CallersInit /\ [][CallersNext]_allvars /\ WF_allvars(CallersNext)

(***************************************************************************)
(* Properties.                                                             *)
(***************************************************************************)
\* Whatever the input, each caller gets its answer: no token sequence leaves the
\* reader without a next step or makes it go round.  Only reading an array filed
\* as a reference may end the process first.
Answers == <>(returned # "nothing" \/ result = "crashed")

\* A caller is given a value, or $_SESSION is filled, only when every deferred
\* call has been made and none threw; and, for the callers that promise it, when
\* nothing was left over in the input.
GivenOnlyWhole ==
    returned \in {"value", "success"} /\ ~Skips =>
       /\ called = Len(deferred) /\ ~throws /\ flagged = {}
       /\ caller # "session" => pos > Len(input)

\* After a failed read the callers that return null hold nothing of what was
\* built: not the value, no pending parameter, no value kept for its ids.
NothingKept == returned = "null" => Live = {1}

\* A session variable has one value: keys written twice, as a string or as a
\* number of the same name, come to one entry each.
OneValueEach == \A p, q \in session : p[1] = q[1] => p = q
=============================================================================
