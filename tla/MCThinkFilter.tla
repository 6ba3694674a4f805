---------------------------- MODULE MCThinkFilter ----------------------------
(* Small instances of ThinkFilter. *)
EXTENDS ThinkFilter

\* Whole tags, tags cut after the first character, in the middle and before the last,
\* and text, some of it long enough to be shown.
MCChunks ==
    {OpenTag, CloseTag, <<"<">>, Slice(OpenTag, 0, 4), Slice(CloseTag, 0, 7), From(OpenTag, 1),
     From(OpenTag, 4), <<">">>, <<"a">>, <<"a", "b", "c", "d", "e", "f", "g", "<">>}
=============================================================================
