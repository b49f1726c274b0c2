------------------------- MODULE MCMessageComposer -------------------------
\* One request is shorter than a buffer of six bytes, one fills it, and two
\* that a client sends one after the other do not fit.
EXTENDS MessageComposer

MCRequests == {<<"a">> \o BlankLine, <<"b", "b">> \o BlankLine}
=============================================================================
