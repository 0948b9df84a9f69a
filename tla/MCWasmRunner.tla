---------------------------- MODULE MCWasmRunner ----------------------------
(* Instances of WasmRunner: files of up to four sectors of two cells.      *)
EXTENDS WasmRunner

MCMagic == <<"m1", "m2">>

\* The first two are not wasm files; some are shorter than the dump, end with
\* erased cells or do not fit the buffer.
MCImages ==
    {<<"a">>, <<"m1", "a", "b">>}
        \union {MCMagic \o f : f \in {<<>>, <<"a">>, <<Erased>>, <<"b", "a">>,
                                     <<"a", Erased>>, <<Erased, "b", "a">>}}
        \union {MCMagic \o <<"a", Erased, "b", "b", Erased>>}
=============================================================================
