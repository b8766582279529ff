------------------------------- MODULE HttpApp -------------------------------
(***************************************************************************)
(* http_app (src/app/http_app.cpp): how one HTTP request is turned into    *)
(* the bytes of its response and into the resources that produce them.     *)
(*                                                                         *)
(* Every operator takes the record of a connection and returns the record, *)
(* or the set of the records, the call may leave behind: the system calls  *)
(* and allocations that fail are the members of Faults.  Bytes are grouped *)
(* into units; a unit on the wire is a triple <<kind, n, m>>.  fs gives    *)
(* the size of the served file and of the page that lists the directory.   *)
(***************************************************************************)
EXTENDS Integers, Sequences

CONSTANTS
    max_body_size,  \* units of request body accepted (2048000 bytes)
    block_size,     \* units one write_end_callback appends (1024000 bytes)
    Faults          \* which of "throw", "stat", "new", "deflateInit2", "fopen",
                    \* "fseek", "fread", "deflate", "new_dir" may fail

NULL == [type |-> "NULL"]

chunked == -1

ResponseHead(status, length) == <<"head", status, length>>
Unit(i) == <<"unit", i, 0>>
GzipUnit(i) == <<"gzip", i, 0>>
GzipTrailer == <<"gzip_trailer", 0, 0>>
LastChunk == <<"last_chunk", 0, 0>>
Listing(i) == <<"listing", i, 0>>

Units(from, to) == [i \in 1..(to - from + 1) |-> Unit(from + i - 1)]

Smaller(a, b) == IF a < b THEN a ELSE b

send_buffer_append(conn, units) == [conn EXCEPT !.send_buffer = @ \o units]

set_response_end(conn) == [conn EXCEPT !.response_end = TRUE]

(* return_404, return_500 and the 405 answer: a head and three bytes.      *)
return_text(conn, status) ==
    set_response_end(send_buffer_append(conn, <<ResponseHead(status, 1), <<"text", status, 0>>>>))

return_empty(conn, status) ==
    set_response_end(send_buffer_append(conn, <<ResponseHead(status, 0)>>))

(* The outcome of a call that fails, when it may.                          *)
Fails(call, outcome) == IF call \in Faults THEN {[outcome EXCEPT !.fault = call]} ELSE {}

(***************************************************************************)
(* Range.  A header is the sequence of its comma separated items, an item  *)
(* [malformed, start_empty, start, end] with end = -1 when it is absent.   *)
(* The items before the first malformed one stay in ranges: the caller     *)
(* only logs that the parse failed.                                        *)
(***************************************************************************)
avant_parse_range_header(items) ==
    LET bad == {i \in DOMAIN items : items[i].malformed}
    IN  IF bad = {} THEN items
        ELSE SubSeq(items, 1, (CHOOSE i \in bad : \A j \in bad : i <= j) - 1)

Partial(start, end) == [status |-> 206, start |-> start, end |-> end]
Unsatisfiable == [status |-> 416, start |-> 0, end |-> 0]

ResolveRange(req, file_size) ==
    LET ranges == avant_parse_range_header(req.range)
        whole == [status |-> 200, start |-> 0, end |-> file_size - 1]
        r == ranges[1]
    IN  IF Len(ranges) # 1 \/ req.if_range_differs THEN whole
        ELSE IF file_size = 0 THEN Unsatisfiable
        ELSE IF r.start_empty
        THEN IF r.end <= 0 THEN Unsatisfiable
             ELSE IF r.end >= file_size THEN whole
             ELSE Partial(file_size - r.end, file_size - 1)
        ELSE IF r.start < 0 \/ r.start >= file_size \/ (r.end # -1 /\ r.end < r.start)
        THEN Unsatisfiable
        ELSE Partial(r.start,
                     IF r.end = -1 \/ r.end > file_size - 1 THEN file_size - 1 ELSE r.end)

(***************************************************************************)
(* The response object.  ptr is ctx.ptr; heap counts what is allocated.    *)
(***************************************************************************)
Acquire(conn, resource) == [conn EXCEPT !.heap[resource] = @ + 1]
Free(conn, resource) == [conn EXCEPT !.heap[resource] = @ - 1]

new_response(conn, type) ==
    Acquire([conn EXCEPT !.ptr = [type |-> type, use_gzip |-> FALSE, gzip_initialized |-> FALSE,
                                  open |-> FALSE, range_left |-> -1, pos |-> 0]],
            "response")

(* avant_http_app_reponse::destory.                                        *)
destory(conn) ==
    LET inflated == IF conn.ptr.gzip_initialized THEN Free(conn, "deflate") ELSE conn
    IN  IF ~conn.ptr.open THEN inflated
        ELSE Free(inflated, IF conn.ptr.type = "FD" THEN "file" ELSE "listing")

destory_callback(conn) ==
    IF conn.ptr = NULL THEN conn
    ELSE [Free(destory(conn), "response") EXCEPT !.ptr = NULL]

(***************************************************************************)
(* The callbacks that http_ctx calls whenever the send buffer has drained. *)
(***************************************************************************)
SendsRange(conn, len) ==
    LET left == conn.ptr.range_left - len
        moved == [conn EXCEPT !.ptr.range_left = left, !.ptr.pos = @ + len]
        filled == send_buffer_append(moved, Units(conn.ptr.pos + 1, conn.ptr.pos + len))
    IN  IF left <= 0 THEN set_response_end(filled) ELSE filled

SendsChunk(conn, len) ==
    LET units == Units(conn.ptr.pos + 1, conn.ptr.pos + len)
        coded == IF conn.ptr.use_gzip
                 THEN [i \in DOMAIN units |-> GzipUnit(units[i][2])]
                 ELSE units
    IN  send_buffer_append([conn EXCEPT !.ptr.pos = @ + len], coded)

SendsEnd(conn) ==
    IF conn.write_end_callback.partial THEN set_response_end(conn)
    ELSE set_response_end(send_buffer_append(conn,
             IF conn.ptr.use_gzip THEN <<GzipTrailer, LastChunk>> ELSE <<LastChunk>>))

write_end_callback_file(conn, fs) ==
    LET partial == conn.write_end_callback.partial
        want == IF partial THEN Smaller(block_size, conn.ptr.range_left) ELSE block_size
        len == Smaller(want, fs.file - conn.ptr.pos)
        gzip_fails == IF conn.ptr.use_gzip /\ ~partial
                      THEN Fails("deflate", set_response_end(conn)) ELSE {}
    IN  IF conn.write_end_callback.head THEN {set_response_end(conn)}
        ELSE Fails("throw", [conn EXCEPT !.everything_end = TRUE])
             \cup gzip_fails
             \cup Fails("fread", SendsEnd(conn))
             \cup {IF len <= 0 THEN SendsEnd(conn)
                   ELSE IF partial THEN SendsRange(conn, len)
                   ELSE SendsChunk(conn, len)}

(* Every block of the listing is taken from the start of the page.         *)
write_end_callback_dir(conn, fs) ==
    LET need_send == Smaller(fs.dir - conn.ptr.pos, block_size)
    IN  IF fs.dir > conn.ptr.pos
        THEN {send_buffer_append([conn EXCEPT !.ptr.pos = @ + need_send],
                                 [i \in 1..need_send |-> Listing(i)])}
        ELSE {set_response_end(conn)}

write_end_callback(conn, fs) ==
    IF conn.write_end_callback.kind = "file" THEN write_end_callback_file(conn, fs)
    ELSE write_end_callback_dir(conn, fs)

(***************************************************************************)
(* process_callback: the request has been received completely.             *)
(***************************************************************************)
Streams(conn, status, length, kind, head, partial, fs) ==
    UNION {write_end_callback(c, fs)
           : c \in {[send_buffer_append(conn, <<ResponseHead(status, length)>>) EXCEPT
                        !.write_end_callback = [kind |-> kind, head |-> head, partial |-> partial]]}}

(* The file is opened, sought and announced; range is a 200 or a 206.      *)
OpensFile(conn, range, fs) ==
    LET partial == range.status = 206
        is_http_head_method == conn.method = "HEAD"
        seeks == partial /\ ~is_http_head_method
        length == range.end - range.start + 1
        opened == [Acquire(conn, "file") EXCEPT !.ptr.open = TRUE]
        placed == IF seeks
                  THEN [opened EXCEPT !.ptr.range_left = length, !.ptr.pos = range.start]
                  ELSE opened
    IN  Fails("fopen", return_text(conn, 500))
        \cup (IF seeks THEN Fails("fseek", return_text(placed, 500)) ELSE {})
        \cup Streams(placed, range.status, IF partial THEN length ELSE chunked,
                     "file", is_http_head_method, partial, fs)

AllocatesResponse(conn, range, fs) ==
    LET chosen == [new_response(conn, "FD") EXCEPT
                      !.ptr.use_gzip = range.status # 206 /\ conn.req.gzip]
        deflating == Acquire([chosen EXCEPT !.ptr.gzip_initialized = TRUE], "deflate")
    IN  Fails("new", return_text(conn, 500)) \cup
        IF chosen.ptr.use_gzip
        THEN Fails("deflateInit2", return_text(chosen, 500))
             \cup UNION {OpensFile(c, range, fs) : c \in {deflating}}
        ELSE UNION {OpensFile(c, range, fs) : c \in {chosen}}

serve_regular_file(conn, fs) ==
    Fails("stat", return_text(conn, 500)) \cup
    UNION {IF range.status = 416 THEN {return_empty(conn, 416)}
           ELSE IF range.status = 200 /\ conn.req.cached THEN {return_empty(conn, 304)}
           ELSE AllocatesResponse(conn, range, fs)
           : range \in {ResolveRange(conn.req, fs.file)}}

(* A failed new DIR_TYPE deletes the response and leaves ctx.ptr as it is. *)
serve_directory(conn, fs) ==
    LET allocated == new_response(conn, "DIR")
        listed == [Acquire(allocated, "listing") EXCEPT !.ptr.open = TRUE]
    IN  Fails("new", return_text(conn, 404))
        \cup Fails("new_dir", return_text(Free(allocated, "response"), 404))
        \cup Streams(listed, 200, fs.dir, "dir", FALSE, FALSE, fs)

Answer(conn, fs) ==
    IF conn.method \notin {"GET", "HEAD"} THEN {return_text(conn, 405)}
    ELSE IF conn.req.target = "undecodable" THEN {return_text(conn, 500)}
    ELSE IF conn.req.target = "dotdot" THEN {return_text(conn, 404)}
    ELSE Fails("throw", [conn EXCEPT !.everything_end = TRUE]) \cup
         CASE conn.req.target = "file" -> serve_regular_file(conn, fs)
           [] conn.req.target = "dir" -> serve_directory(conn, fs)
           [] OTHER -> {return_text(conn, 404)}

process_callback(conn, fs) ==
    UNION {Answer(c, fs) : c \in {[conn EXCEPT !.keep_alive = conn.header_keep_alive]}}

(***************************************************************************)
(* The request body.  recv_body_size grows between the two calls.          *)
(***************************************************************************)
on_body_before(conn, length) == conn.recv_body_size + length <= max_body_size

on_body(conn, length) == conn.recv_body_size + length <= max_body_size

BodyPiece(conn, length) ==
    LET counted == [conn EXCEPT !.recv_body_size = @ + length]
    IN  IF ~on_body_before(conn, length) THEN [conn EXCEPT !.everything_end = TRUE]
        ELSE IF ~on_body(counted, length) THEN [counted EXCEPT !.everything_end = TRUE]
        ELSE counted

(***************************************************************************)
(* What a client is owed.  The positions of the file that a single range   *)
(* names; then the response of a request that met no fault, and of one     *)
(* that did.                                                               *)
(***************************************************************************)
Named(r, size) ==
    {i \in 0..(size - 1) : IF r.start_empty THEN i >= size - r.end
                           ELSE r.start <= i /\ (r.end = -1 \/ i <= r.end)}

FileResponse(req, method, size) ==
    LET ranges == avant_parse_range_header(req.range)
        ranged == Len(ranges) = 1 /\ ~req.if_range_differs
        named == IF ranged THEN Named(ranges[1], size) ELSE 0..(size - 1)
        first == CHOOSE i \in named : \A j \in named : i <= j
        last == CHOOSE i \in named : \A j \in named : i >= j
        whole == ~ranged \/ (ranges[1].start_empty /\ named = 0..(size - 1) /\ named # {})
        body == IF req.gzip THEN [i \in 1..size |-> GzipUnit(i)] \o <<GzipTrailer, LastChunk>>
                ELSE Units(1, size) \o <<LastChunk>>
    IN  IF ~whole /\ named = {} THEN <<ResponseHead(416, 0)>>
        ELSE IF whole /\ req.cached THEN <<ResponseHead(304, 0)>>
        ELSE IF whole
        THEN <<ResponseHead(200, chunked)>> \o (IF method = "HEAD" THEN <<>> ELSE body)
        ELSE <<ResponseHead(206, last - first + 1)>>
             \o (IF method = "HEAD" THEN <<>> ELSE Units(first + 1, last + 1))

TextResponse(status) == <<ResponseHead(status, 1), <<"text", status, 0>>>>

Owed(conn, fs) ==
    IF conn.method \notin {"GET", "HEAD"} THEN TextResponse(405)
    ELSE IF conn.fault \in {"stat", "deflateInit2", "fopen", "fseek"} THEN TextResponse(500)
    ELSE IF conn.fault \in {"new", "new_dir"}
    THEN TextResponse(IF conn.req.target = "file" THEN 500 ELSE 404)
    ELSE CASE conn.req.target = "undecodable" -> TextResponse(500)
           [] conn.req.target = "file" -> FileResponse(conn.req, conn.method, fs.file)
           [] conn.req.target = "dir" ->
                  <<ResponseHead(200, fs.dir)>> \o [i \in 1..fs.dir |-> Listing(i)]
           [] OTHER -> TextResponse(404)
=============================================================================
