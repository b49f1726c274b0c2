---------------------------- MODULE HeaderParser ----------------------------
(***************************************************************************)
(* HTTP_Header_parser::parse: the path of a request, cut out of its first  *)
(* line with offsets that are not tested, and decoded; and the encoding of *)
(* file names in the links of a listing, which clients send back as paths. *)
(*                                                                         *)
(* Text is a sequence of characters.  A request is what the message        *)
(* composer hands over, so that it ends with CR LF CR LF.                  *)
(***************************************************************************)
EXTENDS Integers, SequencesExt

CONSTANTS
    Characters,  \* characters of file names
    MaxName,     \* longest file name a client asks for
    MaxLine      \* longest request line of any other kind

ASSUME ConstantsOK == MaxName \in Nat /\ MaxLine \in Nat

VARIABLES
    request_header,  \* the request
    request_path,    \* the path found in it
    is_dirty,        \* it has not been parsed yet
    defined,         \* FALSE once an iterator was out of range
    linked           \* history: the file name the client followed a link to

vars == <<request_header, request_path, is_dirty, defined, linked>>

Space == " "
Escape == <<"%", "2", "0">>
EndOfLine == {"CR", "LF"}
BlankLine == <<"CR", "LF", "CR", "LF">>

\* QString::replace(" ", "%20") on a name, for the href of a link.
url_encoded(name) ==
    FlattenSeq([k \in DOMAIN name |-> IF name[k] = Space THEN Escape ELSE <<name[k]>>])

Get(path) == <<"G", "E", "T", Space>> \o path \o <<Space, "v">> \o BlankLine

Text(S, n) == UNION {[1 .. k -> S] : k \in 0 .. n}

\* A client follows a link, or sends a line of words and spaces.
Init ==
    /\ request_path = <<>>
    /\ is_dirty = TRUE
    /\ defined = TRUE
    /\ \/ /\ linked \in Text(Characters, MaxName)
          /\ request_header = Get(url_encoded(linked))
       \/ /\ linked = <<>>
          /\ \E line \in Text({"a", Space}, MaxLine) :
               request_header = line \o BlankLine

-----------------------------------------------------------------------------
\* parse().  Offsets count from 0, as in the code.

\* std::string(s.begin() + first, s.begin() + last).
Slice(s, first, last) == SubSeq(s, first + 1, last)

InRange(s, first, last) == 0 <= first /\ first <= last /\ last <= Len(s)

rv == CHOOSE n \in 0 .. Len(request_header) - 1 :
        /\ request_header[n + 1] \in EndOfLine
        /\ \A k \in 1 .. n : request_header[k] \notin EndOfLine

\* Seeded bug: the end of line is taken to have two characters.
LineEndTwo == rv - 2

\* The last character of the line is left out.
LineEnd == rv - 1

get_line == Slice(request_header, 4, LineEnd)

\* find_last_of, -1 when there is none.
last_space ==
    IF Space \in ToSet(get_line) THEN SelectLastInSeq(get_line, LAMBDA c : c = Space) - 1
    ELSE -1

EscapeAt(s, k) == k + 2 <= Len(s) /\ SubSeq(s, k, k + 2) = Escape

\* Seeded bug: the characters of an escape are replaced one by one.
DecodedTwice(s) ==
    [k \in DOMAIN s |-> IF EscapeAt(s, k) THEN Space ELSE s[k]]

\* QString::replace("%20", " "): one pass; occurrences cannot overlap.
Decoded(s) ==
    FlattenSeq([k \in DOMAIN s |->
        IF EscapeAt(s, k) THEN <<Space>>
        ELSE IF \E j \in {k - 1, k - 2} : j >= 1 /\ EscapeAt(s, j) THEN <<>>
        ELSE <<s[k]>>])

Defined ==
    /\ InRange(request_header, 4, LineEnd)
    /\ InRange(get_line, 0, last_space)

\* A later call finds is_dirty FALSE and does nothing.
parse ==
    /\ is_dirty
    /\ Defined
    /\ request_path' = Decoded(Slice(get_line, 0, last_space))
    /\ is_dirty' = FALSE
    /\ UNCHANGED <<request_header, defined, linked>>

\* An iterator out of range: the dispatcher has no defined behaviour from here.
parseOutOfRange ==
    /\ is_dirty
    /\ defined
    /\ ~Defined
    /\ defined' = FALSE
    /\ UNCHANGED <<request_header, request_path, is_dirty, linked>>

Next == parse \/ parseOutOfRange

Spec == Init /\ [][Next]_vars

-----------------------------------------------------------------------------
\* Properties.

\* The links of a listing lead back to the files they were made for, whatever
\* spaces and percent signs their names have, unless a name itself contains
\* the escape or a line break, which no one encodes: encoding at one end and
\* cutting and decoding at the other agree.
LinksLeadBack ==
    /\ linked # <<>>
    /\ \A k \in DOMAIN linked : ~EscapeAt(linked, k) /\ linked[k] \notin EndOfLine
    /\ ~is_dirty
    => request_path = linked

\* Positions of the spaces of the request line.
Spaces == {k \in 1 .. rv : request_header[k] = Space}

\* The untested offsets of parse() stay in range for every line with a method
\* of three or more characters, a path and a version, wherever else the line
\* has spaces.
RequestLineParses ==
    \A first, last \in Spaces :
        first > 3 /\ last > first + 1 /\ last < rv => defined
=============================================================================
