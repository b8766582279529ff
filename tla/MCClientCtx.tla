----------------------------- MODULE MCClientCtx -----------------------------
(***************************************************************************)
(* Values for ClientCtx: a first request or frame of every kind, and a     *)
(* second one that finds what the first has left behind.                   *)
(***************************************************************************)
EXTENDS ClientCtx

Plain(method, keep_alive, target) ==
    [method |-> method, keep_alive |-> keep_alive, target |-> target, body |-> <<>>,
     range |-> <<>>, if_range_differs |-> FALSE, cached |-> FALSE, gzip |-> FALSE]

GetFile == Plain("GET", TRUE, "file")

Item(start_empty, start, end) ==
    [malformed |-> FALSE, start_empty |-> start_empty, start |-> start, end |-> end]

Malformed == [malformed |-> TRUE, start_empty |-> FALSE, start |-> 0, end |-> 0]

Ranges ==
    {<<Item(FALSE, start, end)>> : start \in 0..2, end \in -1..3}
    \cup {<<Item(FALSE, 3, -1)>>}
    \cup {<<Item(TRUE, 0, end)>> : end \in -1..4}
    \cup {<<Item(FALSE, 1, 1), second>> : second \in {Item(TRUE, 0, 1), Malformed}}

FirstRequests ==
    {Plain(method, keep_alive, target) :
        method \in {"GET", "HEAD"}, keep_alive \in BOOLEAN, target \in {"file", "dir"}}
    \cup {Plain("GET", TRUE, target) : target \in {"missing", "undecodable", "dotdot"}}
    \cup {[Plain("POST", TRUE, "file") EXCEPT !.body = body] : body \in {<<1>>, <<2>>, <<1, 2>>}}
    \cup {Plain("malformed", FALSE, "file")}
    \cup {[GetFile EXCEPT !.gzip = TRUE], [GetFile EXCEPT !.cached = TRUE]}
    \cup {[GetFile EXCEPT !.range = range] : range \in Ranges}
    \cup {[GetFile EXCEPT !.range = <<Item(FALSE, 1, 2)>>, !.if_range_differs = TRUE],
          [GetFile EXCEPT !.range = <<Item(FALSE, 1, 2)>>, !.method = "HEAD"]}

SecondRequests ==
    {GetFile, Plain("GET", FALSE, "dir"), [Plain("POST", TRUE, "file") EXCEPT !.body = <<2, 2>>]}

Requests == <<FirstRequests, SecondRequests>>

Sizes == {[file |-> 0, dir |-> 1], [file |-> 3, dir |-> 3]}

Fallible ==
    {"throw", "stat", "new", "deflateInit2", "fopen", "fseek", "fread", "deflate"}

Of(fin, opcode, mask, payload) ==
    [fin |-> fin, opcode |-> opcode, mask |-> mask, payload |-> payload,
     claimed |-> Len(payload)]

Bits(n) == [i \in 1..n |-> i % 2]

FirstFrames ==
    {Of(TRUE, 2, TRUE, Bits(n)) : n \in 0..4}
    \cup {Of(TRUE, 2, FALSE, Bits(n)) : n \in {1, 5}}
    \cup {Of(FALSE, 1, TRUE, Bits(n)) : n \in {0, 2}}
    \cup {Of(TRUE, 8, TRUE, <<>>), Of(TRUE, 2, TRUE, <<0, 0>>)}
    \cup {[Of(TRUE, 2, TRUE, <<>>) EXCEPT !.claimed = n] : n \in {8, 9, 15}}

SecondFrames == {Of(TRUE, 0, TRUE, <<0>>), Of(TRUE, 2, TRUE, <<1>>)}

Frames == <<FirstFrames, SecondFrames>>

Refused == {<<0, 0>>}

(* Two of the longest are more than max_buffer leaves room for.            *)
Packages ==
    {[broadcast |-> FALSE, data |-> Bits(n)] : n \in {0, 2, 6}}
    \cup {[broadcast |-> TRUE, data |-> data] : data \in {<<1>>, <<0, 0>>}}
=============================================================================
