------------------------------ MODULE MCFuture ------------------------------
(***************************************************************************)
(* Two input futures f1 and f2 and the consumer programs the runs check.   *)
(***************************************************************************)
EXTENDS Future

MCIn == <<"f1", "f2">>

\* the combinator and then(), a timed get() of f1, a blocking get() of f2,
\* and a timed get() of the combinator's output
MCProgs == { << <<"wait">>, <<"then">>, <<"gett", "f1">>, <<"get", "f2">>,
                <<"gett", "C">> >> }

\* a timed get() of f1 before or after then() on f1, then T.get()
MCPollProgs == { << <<"then">>, <<"gett", "f1">>, <<"get", "T">> >>,
                 << <<"gett", "f1">>, <<"then">>, <<"get", "T">> >> }
=============================================================================
