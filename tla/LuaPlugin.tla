------------------------------ MODULE LuaPlugin ------------------------------
(***************************************************************************)
(* The bridge between protobuf messages and Lua tables.  A message for a   *)
(* Lua VM becomes a table (protobuf2lua_nostack), the script does what it  *)
(* likes with the table and sends it (Lua2Protobuf), and the table becomes *)
(* a message again (lua2protobuf_nostack).  Both conversions walk nested   *)
(* messages with a stack of their own (cpp_stack) beside the Lua stack,    *)
(* and every push on the one must be met by a pop: the callers assert it   *)
(* ("the Lua stack must balance").  One step is one round of the loop      *)
(* "while (!cpp_stack.empty())".                                           *)
(*                                                                         *)
(* A Lua value is <<type, value>>.  A number is an "integer", which only   *)
(* the stock Lua has, or a "float", counted in halves.  A string that      *)
(* reads as a number is written in "digits", as a "decimal" or with an     *)
(* "exponent"; any other string is "text".  A table is a function from     *)
(* keys, which are Lua values, to values, so lua_settable of a finished    *)
(* table stores a copy; nobody changes it afterwards.  A number that is a  *)
(* key is an "integer" with either Lua.                                    *)
(*                                                                         *)
(* A message maps field names to values: a sequence of values for a        *)
(* repeated field, at most one message in a sequence for a message field.  *)
(* A DOUBLE or a FLOAT is counted in halves.  The widths of numbers are    *)
(* scaled down.                                                            *)
(***************************************************************************)
EXTENDS Integers, SequencesExt

CONSTANTS Descriptor,    \* message type -> sequence of field descriptors
          Registered,    \* types the message factory makes
          Message,       \* messages received, each with its type
          Echoed,        \* those the script sends back as they are
          Keys,          \* the keys of tables, in an order lua_next may take
          Junk,          \* values a script may put in the wrong place
          c_str(_),      \* the bytes of a string before its first NUL
          prefix(_)      \* the integer a text begins with, in a set: {} if none

LUA_MINSTACK == 20       \* slots a C function may use beyond its arguments

narrow == 3              \* bits of an int32, a uint32, an enum
wide == 5                \* bits of an int64, a uint64
double_bits == 4         \* bits of the significand of a double
float_bits == 2          \* and of a float
print_max == 9           \* a larger float is printed with an exponent

VARIABLES phase,
          jit,           \* built with LuaJIT
          backwards,     \* lua_next takes the reverse of Keys
          far_border,    \* lua_rawlen takes the last border of an array with gaps
          source,        \* [type, package]: the message to convert
          base,          \* values on the Lua stack below the conversion
          lua,           \* the Lua stack
          cpp_stack,
          table,         \* what the script sends
          type,          \* the type it sends the table as
          heap,          \* messages under construction, by address
          sent           \* where the message went

vars == <<phase, jit, backwards, far_border, source, base, lua, cpp_stack, table, type, heap, sent>>

-----------------------------------------------------------------------------
(* Lua values and the Lua stack *)

nil == <<"nil", 0>>
NewTable == <<"table", <<>>>>
Integer(n) == <<"integer", n>>
Key(name) == <<"text", name>>

istable(x) == x[1] = "table"
isnumber(x) == x[1] \in {"integer", "float", "digits", "decimal", "exponent"}
isstring(x) == isnumber(x) \/ x[1] = "text"
isboolean(x) == x[1] = "boolean"

Halves(x) == IF x[1] \in {"integer", "digits"} THEN 2 * x[2] ELSE x[2]

Abs(n) == IF n < 0 THEN -n ELSE n

(* The stock Lua prints the float 3 as 3.0, LuaJIT as 3.                   *)
tostring(x) ==
    CASE x[1] = "integer" -> <<"digits", x[2]>>
      [] x[1] = "float" -> IF Abs(x[2]) > 2 * print_max THEN <<"exponent", x[2]>>
                           ELSE IF jit /\ x[2] % 2 = 0 THEN <<"digits", x[2] \div 2>>
                           ELSE <<"decimal", x[2]>>
      [] OTHER -> x

(* A number in so many significant bits, and the nearest ones; a tie goes  *)
(* either way.                                                             *)
Representable(h, bits) == \E e \in 0 .. 8 : h % 2^e = 0 /\ Abs(h) \div 2^e < 2^bits

Nearest(h, bits) ==
    LET d == CHOOSE d \in 0 .. Abs(h) : /\ \E y \in {h - d, h + d} : Representable(y, bits)
                                        /\ \A y \in (h - d + 1) .. (h + d - 1) : ~Representable(y, bits)
    IN  {y \in {h - d, h + d} : Representable(y, bits)}

tonumber(x) == Nearest(Halves(x), double_bits)

pushinteger(n) == IF jit THEN <<"float", 2 * n>> ELSE Integer(n)

Get(t, k) == IF k \in DOMAIN t[2] THEN t[2][k] ELSE nil

Set(t, k, x) == <<"table", [j \in DOMAIN t[2] \cup {k} |-> IF j = k THEN x ELSE t[2][j]]>>

Pop(s, n) == SubSeq(s, 1, Len(s) - n)

Top(s, n) == s[Len(s) + 1 - n]

(* lua_settable(L, -3) *)
settable(s) == Append(Pop(s, 3), Set(Top(s, 3), Top(s, 2), Top(s, 1)))

(* The key lua_next finds after k in the table: nil after the last one.    *)
NextKey(t, k) == LET keys == SelectSeq(Keys, LAMBDA j : j \in DOMAIN t[2])
                     n == Len(keys)
                     i == IF k = nil THEN 0 ELSE CHOOSE j \in 1 .. n : keys[j] = k
                 IN  IF backwards
                     THEN IF i = 1 \/ n = 0 THEN nil ELSE keys[IF i = 0 THEN n ELSE i - 1]
                     ELSE IF i = n THEN nil ELSE keys[i + 1]

(* Elements 1, 2, ... up to a border, which is the end when there is no    *)
(* gap: lua_rawlen.  countTableElements, used with LuaJIT, counts every    *)
(* key.                                                                    *)
Indices(t) == {k[2] : k \in {j \in DOMAIN t[2] : j[1] = "integer"}}

Borders(t) == {n \in {0} \cup Indices(t) : n + 1 \notin Indices(t)}

rawlen(t) == IF far_border THEN Max(Borders(t)) ELSE Min(Borders(t))

countTableElements(t) == Cardinality(DOMAIN t[2])

n_in_array(t) == IF jit THEN countTableElements(t) ELSE rawlen(t)

-----------------------------------------------------------------------------
(* fields *)

Numeric == {"INT32", "UINT32", "DOUBLE", "FLOAT", "ENUM"}
Wide == {"INT64", "UINT64"}

Field(mtype, name) == SelectSeq(Descriptor[mtype], LAMBDA f : f.name = name)

DefaultValue(field) == IF field.repeated \/ field.cpp_type = "MESSAGE" THEN <<>>
                       ELSE IF field.cpp_type = "BOOL" THEN FALSE
                       ELSE IF field.cpp_type = "STRING" THEN <<"text", "">>
                       ELSE 0

Default(mtype) ==
    LET fields == Descriptor[mtype]
    IN  [name \in {fields[i].name : i \in DOMAIN fields} |->
            DefaultValue(fields[CHOOSE i \in DOMAIN fields : fields[i].name = name])]

(* The values of an integer field.                                         *)
Holds(cpp_type) ==
    CASE cpp_type \in {"INT32", "ENUM"} -> -(2^(narrow - 1)) .. 2^(narrow - 1) - 1
      [] cpp_type = "UINT32" -> 0 .. 2^narrow - 1
      [] cpp_type = "INT64" -> -(2^(wide - 1)) .. 2^(wide - 1) - 1
      [] cpp_type = "UINT64" -> 0 .. 2^wide - 1

(* A 64-bit number travels as a string: a Lua number could not hold it.    *)
(* An enum is read as a uint32.                                            *)
ToLua(cpp_type, v) ==
    CASE cpp_type \in {"INT32", "UINT32"} -> pushinteger(v)
      [] cpp_type = "ENUM" -> pushinteger(v % 2^narrow)
      [] cpp_type \in {"DOUBLE", "FLOAT"} -> <<"float", v>>
      [] cpp_type \in Wide -> <<"digits", v>>
      [] cpp_type = "BOOL" -> <<"boolean", v>>
      [] cpp_type = "STRING" -> v

Accepts(cpp_type, x) == \/ cpp_type \in Numeric /\ isnumber(x)
                        \/ cpp_type \in Wide /\ isstring(x)
                        \/ cpp_type = "BOOL" /\ isboolean(x)
                        \/ cpp_type = "STRING" /\ isstring(x)

Truncated(h) == IF h < 0 THEN -(Abs(h) \div 2) ELSE h \div 2

(* The conversion of a double to a 32-bit integer is undefined when it     *)
(* does not fit: processors give a bound or the low bits.                  *)
cast(cpp_type, h) ==
    LET n == Truncated(h)
        all == Holds(cpp_type)
    IN  IF n \in all THEN {n}
        ELSE {Min(all), Max(all), CHOOSE m \in all : (n - m) % 2^narrow = 0}

(* The integer a string begins with: 1 for 1.5 and for 1e+15.              *)
Leading(x) ==
    CASE x[1] = "digits" -> {x[2]}
      [] x[1] = "decimal" -> {Truncated(x[2])}
      [] x[1] = "exponent" -> {IF x[2] < 0 THEN -(Abs(x[2]) \div 20) ELSE x[2] \div 20}
      [] x[1] = "text" -> prefix(x[2])

(* Both throw when there is no such integer, or one out of range: the set  *)
(* is empty.  stoull negates what follows a minus sign modulo 2^64.        *)
stoll(x) == Leading(x) \cap Holds("INT64")

stoull(x) == {n % 2^wide : n \in {m \in Leading(x) : Abs(m) \in Holds("UINT64")}}

(* What a field may become of a value it accepts: {} when that throws.     *)
OfLua(cpp_type, x) ==
    CASE cpp_type \in {"INT32", "UINT32", "ENUM"} -> UNION {cast(cpp_type, h) : h \in tonumber(x)}
      [] cpp_type = "DOUBLE" -> tonumber(x)
      [] cpp_type = "FLOAT" -> UNION {Nearest(h, float_bits) : h \in tonumber(x)}
      [] cpp_type = "INT64" -> stoll(tostring(x))
      [] cpp_type = "UINT64" -> stoull(tostring(x))
      [] cpp_type = "BOOL" -> {x[2]}
      [] cpp_type = "STRING" -> {c_str(tostring(x))}

Items(t) == [i \in 1 .. n_in_array(t) |-> Get(t, Integer(i))]

-----------------------------------------------------------------------------
(* protobuf2lua_nostack *)

ProtoFrame(mtype, package, settable_on_pop) ==
    [type |-> mtype, package |-> package, next_field_idx |-> 1,
     settable_on_pop |-> settable_on_pop, repeated_loop_idx |-> 0]

(* The table for OnLuaVMRecvMessage lies above the error handler, the      *)
(* function and six arguments; CreateNewProtobufByCmd has popped its only  *)
(* argument.                                                               *)
Start(mtype, package, below) ==
    /\ phase = "push"
    /\ base = below
    /\ source = [type |-> mtype, package |-> package]
    /\ lua = [i \in 1 .. below |-> nil] \o <<NewTable>>
    /\ cpp_stack = <<ProtoFrame(mtype, package, FALSE)>>

(* Values the Lua stack may hold before it runs over.                      *)
Room == LUA_MINSTACK + (IF phase = "pull" THEN 6 ELSE IF base = 0 THEN 1 ELSE 0)

(* A round ends with s on the Lua stack, which held peak values at most.   *)
Leave(s, frames, peak) ==
    /\ lua' = s
    /\ cpp_stack' = frames
    /\ phase' = IF peak > Room THEN "overrun" ELSE phase
    /\ UNCHANGED <<jit, backwards, far_border, source, base, table, type, sent>>

NextField(frame) == Append(Front(cpp_stack),
                           [frame EXCEPT !.next_field_idx = @ + 1, !.repeated_loop_idx = 0])

(* Every field of the message is in its table: the table goes into the     *)
(* table, or the array, it belongs to.                                     *)
pop_frame(frame) ==
    Leave(IF frame.settable_on_pop THEN settable(lua) ELSE lua, Front(cpp_stack), 0)

push_scalar_stays(frame, field) ==          \* mutant
    /\ ~field.repeated /\ field.cpp_type # "MESSAGE"
    /\ \E x \in {ToLua(field.cpp_type, frame.package[field.name])} :
          \E s \in {lua \o <<Key(field.name), x>>} :
             Leave(settable(s), cpp_stack, Len(s))

push_scalar(frame, field) ==
    /\ ~field.repeated /\ field.cpp_type # "MESSAGE"
    /\ \E x \in {ToLua(field.cpp_type, frame.package[field.name])} :
          \E s \in {lua \o <<Key(field.name), x>>} :
             Leave(settable(s), NextField(frame), Len(s))

(* GetMessage of a field that is not set gives the default instance.       *)
push_message(frame, field) ==
    /\ ~field.repeated /\ field.cpp_type = "MESSAGE"
    /\ LET sub == frame.package[field.name]
           package == IF sub = <<>> THEN Default(field.type) ELSE sub[1]
       IN  Leave(lua \o <<Key(field.name), NewTable>>,
                 Append(NextField(frame), ProtoFrame(field.type, package, TRUE)), Len(lua) + 2)

(* The loop over an array of floats never advances: the round does not end. *)
push_array(frame, field) ==
    /\ field.repeated /\ field.cpp_type # "MESSAGE"
    /\ field.cpp_type = "FLOAT" => frame.package[field.name] = <<>>
    /\ \E vals \in {frame.package[field.name]} :
       \E array \in {<<"table", [k \in {Integer(i) : i \in DOMAIN vals} |->
                                    ToLua(field.cpp_type, vals[k[2]])]>>} :
       \E s \in {lua \o <<Key(field.name), array>>} :
          Leave(settable(s), NextField(frame), Len(s) + (IF vals = <<>> THEN 0 ELSE 2))

push_message_array_from_zero(frame, field) ==   \* mutant
    /\ field.repeated /\ field.cpp_type = "MESSAGE"
    /\ \E idx \in {frame.repeated_loop_idx} :
       \E s \in {IF idx = 0 THEN lua \o <<Key(field.name), NewTable>> ELSE lua} :
          IF idx = Len(frame.package[field.name])
          THEN Leave(settable(s), NextField(frame), Len(s))
          ELSE Leave(s \o <<Integer(idx), NewTable>>,
                     Front(cpp_stack) \o
                        <<[frame EXCEPT !.repeated_loop_idx = idx + 1],
                          ProtoFrame(field.type, frame.package[field.name][idx + 1], TRUE)>>,
                     Len(s) + 2)

(* The loop is left for the frame of one element and entered again, with   *)
(* repeated_loop_idx where it was, when that frame is done.                *)
push_message_array(frame, field) ==
    /\ field.repeated /\ field.cpp_type = "MESSAGE"
    /\ \E idx \in {frame.repeated_loop_idx} :
       \E s \in {IF idx = 0 THEN lua \o <<Key(field.name), NewTable>> ELSE lua} :
          IF idx = Len(frame.package[field.name])
          THEN Leave(settable(s), NextField(frame), Len(s))
          ELSE Leave(s \o <<Integer(idx + 1), NewTable>>,
                     Front(cpp_stack) \o
                        <<[frame EXCEPT !.repeated_loop_idx = idx + 1],
                          ProtoFrame(field.type, frame.package[field.name][idx + 1], TRUE)>>,
                     Len(s) + 2)

push_next ==
    /\ phase = "push" /\ cpp_stack # <<>>
    /\ \E frame \in {Last(cpp_stack)} :
       \E fields \in {Descriptor[frame.type]} :
          IF frame.next_field_idx > Len(fields) THEN pop_frame(frame)
          ELSE \E field \in {fields[frame.next_field_idx]} :
                  \/ push_scalar(frame, field) \/ push_array(frame, field)
                  \/ push_message(frame, field) \/ push_message_array(frame, field)
    /\ UNCHANGED heap

(* The callers assert that the stack has grown by the table.               *)
push_end ==
    /\ phase = "push" /\ cpp_stack = <<>>
    /\ IF Len(lua) = base + 1
       THEN phase' = "script" /\ table' = Last(lua)
       ELSE phase' = "exit" /\ UNCHANGED table
    /\ lua' = <<>>
    /\ UNCHANGED <<jit, backwards, far_border, source, base, cpp_stack, type, heap, sent>>

-----------------------------------------------------------------------------
(* the script *)

RECURSIVE Edits(_)
(* The tables one careless assignment makes of x: a value of another type, *)
(* a field or an element left out, a key that names no field.              *)
Edits(x) ==
    IF ~istable(x) THEN {}
    ELSE UNION {{Set(x, k, y) : y \in {j \in Junk : jit => j[1] # "integer"} \cup Edits(x[2][k])}
                : k \in DOMAIN x[2]}
         \cup {<<"table", [j \in DOMAIN x[2] \ {k} |-> x[2][j]]>> : k \in DOMAIN x[2]}
         \cup {Set(x, k, pushinteger(1)) : k \in {<<"text", "unknown">>, <<"boolean", TRUE>>}}

LuaFrame(package_ptr, frame_in_luastack, luapop_num_on_destory) ==
    [package_ptr |-> package_ptr, frame_in_luastack |-> frame_in_luastack,
     curr_key_is_nil |-> TRUE, luapop_num_on_destory |-> luapop_num_on_destory]

(* avant.Lua2Protobuf: five of the six arguments are popped.  They have    *)
(* the types the assertions ask for, and the two 64-bit ones are numbers.  *)
Lua2Protobuf(t, cmd) ==
    /\ table' = t /\ type' = cmd
    /\ IF cmd \in Registered
       THEN /\ phase' = "pull"
            /\ lua' = <<t>>
            /\ cpp_stack' = <<LuaFrame(1, 1, 0)>>
            /\ heap' = <<[type |-> cmd, val |-> Default(cmd)]>>
       ELSE /\ phase' = "refused"
            /\ UNCHANGED <<lua, cpp_stack, heap>>
    /\ UNCHANGED <<jit, backwards, far_border, source, base, sent>>

Script == /\ phase = "script"
          /\ \E t \in {table} \cup (IF source \in Echoed THEN {} ELSE Edits(table)),
                cmd \in DOMAIN Descriptor : Lua2Protobuf(t, cmd)

-----------------------------------------------------------------------------
(* lua2protobuf_nostack *)

(* A key that names no field is passed over.  An integer key is looked up  *)
(* as its digits, which no field is called; keys of other types are not    *)
(* looked up at all.                                                       *)
FieldsAt(frame, key) ==
    IF key[1] = "text" THEN Range(Field(heap[frame.package_ptr].type, key[2])) ELSE {}

Fits(field, val) == IF field.repeated \/ field.cpp_type = "MESSAGE" THEN istable(val)
                    ELSE Accepts(field.cpp_type, val)

Visited(frame) == Append(Front(cpp_stack), [frame EXCEPT !.curr_key_is_nil = FALSE])

(* s is the Lua stack after lua_next, without the value it has pushed: the *)
(* key stays for the next round, the value is popped in this one.          *)
pull_skip(frame, s) == /\ Leave(s, Visited(frame), Len(s) + 1)
                       /\ UNCHANGED heap

Store(frame, field, v) == heap' = [heap EXCEPT ![frame.package_ptr].val[field.name] = v]

Raise(outcome) ==
    /\ phase' = outcome
    /\ UNCHANGED <<jit, backwards, far_border, source, base, lua, cpp_stack, table, type, heap, sent>>

pull_scalar(frame, s, val, field) ==
    /\ ~field.repeated /\ field.cpp_type # "MESSAGE"
    /\ \E vals \in {OfLua(field.cpp_type, val)} :
          IF vals = {} THEN Raise("thrown")
          ELSE /\ Leave(s, Visited(frame), Len(s) + 1)
               /\ \E v \in vals : Store(frame, field, v)

(* To count the elements LuaJIT holds a copy of the array, a key and a     *)
(* value above it.                                                         *)
Counting(s, t) == Len(s) + 1 + (IF ~jit THEN 0 ELSE IF DOMAIN t[2] = {} THEN 2 ELSE 3)

(* Elements of the wrong type are left out.                                *)
pull_array(frame, s, val, field) ==
    /\ field.repeated /\ field.cpp_type # "MESSAGE"
    /\ \E items \in {SelectSeq(Items(val), LAMBDA x : Accepts(field.cpp_type, x))} :
       \E vals \in {[i \in DOMAIN items |-> OfLua(field.cpp_type, items[i])]} :
          IF {} \in Range(vals) THEN Raise("thrown")
          ELSE /\ Leave(s, Visited(frame),
                        Max({Counting(s, val), Len(s) + (IF Items(val) = <<>> THEN 1 ELSE 2)}))
               /\ \E vs \in [DOMAIN items -> UNION Range(vals)] :
                     (\A i \in DOMAIN items : vs[i] \in vals[i]) /\ Store(frame, field, vs)

pull_message(frame, s, val, field) ==
    /\ ~field.repeated /\ field.cpp_type = "MESSAGE"
    /\ Leave(Append(s, val), Append(Visited(frame), LuaFrame(Len(heap) + 1, Len(s) + 1, 1)),
             Len(s) + 1)
    /\ heap' = Append([heap EXCEPT ![frame.package_ptr].val[field.name] = <<Len(heap) + 1>>],
                      [type |-> field.type, val |-> Default(field.type)])

(* Every element that is a table goes on the Lua stack, above the array,   *)
(* and gets a frame; the frame of element 1, the last to be done, pops the *)
(* array too.  An empty array is popped here.                              *)
pull_message_array(frame, s, val, field) ==
    /\ field.repeated /\ field.cpp_type = "MESSAGE"
    /\ \E items \in {Items(val)} :
       \E tables \in {SelectSeq([i \in DOMAIN items |-> <<i, items[i]>>], LAMBDA p : istable(p[2]))} :
       \E array \in {IF items = <<>> THEN s ELSE Append(s, val)} :
          /\ Leave(array \o [j \in DOMAIN tables |-> tables[j][2]],
                   Visited(frame) \o [j \in DOMAIN tables |->
                       LuaFrame(Len(heap) + j, Len(array) + j, IF tables[j][1] = 1 THEN 2 ELSE 1)],
                   Max({Counting(s, val),
                        Len(s) + 1 + Len(tables) +
                           (IF items # <<>> /\ ~istable(Last(items)) THEN 1 ELSE 0)}))
          /\ heap' = [heap EXCEPT ![frame.package_ptr].val[field.name] =
                                       [j \in DOMAIN tables |-> Len(heap) + j]]
                     \o [j \in DOMAIN tables |-> [type |-> field.type, val |-> Default(field.type)]]

pull_field(frame, s, key, val) ==
    IF \A field \in FieldsAt(frame, key) : ~Fits(field, val) THEN pull_skip(frame, s)
    ELSE \E field \in FieldsAt(frame, key) :
            \/ pull_scalar(frame, s, val, field) \/ pull_array(frame, s, val, field)
            \/ pull_message(frame, s, val, field) \/ pull_message_array(frame, s, val, field)

pull_frame_end_keeps_array(frame, s) ==     \* mutant
    /\ Leave(Pop(s, IF frame.luapop_num_on_destory = 0 THEN 0 ELSE 1), Front(cpp_stack), Len(s) + 1)
    /\ UNCHANGED heap

(* lua_next has popped the last key: the frame goes, and its values.       *)
pull_frame_end(frame, s) ==
    /\ Leave(Pop(s, frame.luapop_num_on_destory), Front(cpp_stack), Len(s) + 1)
    /\ UNCHANGED heap

(* A nil starts the traversal of a table.  lua_next raises an error for a  *)
(* key the table does not have; out of lua_pcall the error ends the        *)
(* process, whose caller asserts LUA_OK.                                   *)
pull_next ==
    /\ phase = "pull" /\ cpp_stack # <<>>
    /\ \E frame \in {Last(cpp_stack)} :
       \E s \in {IF frame.curr_key_is_nil THEN lua ELSE Front(lua)},
          last_key \in {IF frame.curr_key_is_nil THEN nil ELSE Last(lua)},
          t \in {lua[frame.frame_in_luastack]} :
             IF last_key # nil /\ last_key \notin DOMAIN t[2] THEN Raise("error")
             ELSE \E key \in {NextKey(t, last_key)} :
                     IF key = nil THEN pull_frame_end(frame, s)
                     ELSE pull_field(frame, Append(s, key), key, t[2][key])

(* Lua2Protobuf asserts the balance and passes the message on.             *)
pull_end(msg_type) ==
    /\ phase = "pull" /\ cpp_stack = <<>>
    /\ phase' = IF Len(lua) = 1 THEN "done" ELSE "exit"
    /\ sent' = IF Len(lua) = 1 THEN msg_type ELSE sent
    /\ UNCHANGED <<jit, backwards, far_border, source, base, lua, cpp_stack, table, type, heap>>

-----------------------------------------------------------------------------

Init == /\ jit \in BOOLEAN /\ backwards \in BOOLEAN
        /\ far_border \in (IF jit THEN {FALSE} ELSE BOOLEAN)
        /\ \/ \E m \in Message : Start(m.type, m.package, 8)
           \/ \E mtype \in Registered : Start(mtype, Default(mtype), 0)
        /\ table = nil /\ type = "" /\ heap = <<>> /\ sent = "nowhere"

protobuf2lua_nostack == push_next \/ push_end

lua2protobuf_nostack ==
    pull_next \/ \E msg_type \in {"CLIENT", "IPC", "UDP", "unknown"} : pull_end(msg_type)

Next == \/ protobuf2lua_nostack
        \/ Script
        \/ lua2protobuf_nostack

(* A conversion runs in one thread and waits for nothing; the script sends *)
(* a table or does not.                                                    *)
Spec == /\ Init /\ [][Next]_vars
        /\ WF_vars(protobuf2lua_nostack) /\ WF_vars(lua2protobuf_nostack)

-----------------------------------------------------------------------------
(* properties *)

RECURSIVE TableOf(_, _)
(* The table of a message, defined by recursion over the message.          *)
TableOf(mtype, m) ==
    LET fields == Descriptor[mtype]
        One(field, v) == IF field.cpp_type = "MESSAGE" THEN TableOf(field.type, v)
                         ELSE ToLua(field.cpp_type, v)
        ValueOf(field) ==
            LET v == m[field.name]
            IN  IF field.repeated
                THEN <<"table", [k \in {Integer(i) : i \in DOMAIN v} |-> One(field, v[k[2]])]>>
                ELSE IF field.cpp_type # "MESSAGE" THEN One(field, v)
                ELSE One(field, IF v = <<>> THEN Default(field.type) ELSE v[1])
    IN  <<"table", [k \in {Key(fields[i].name) : i \in DOMAIN fields} |->
                       ValueOf(Field(mtype, k[2])[1])]>>

(* protobuf2lua_nostack, with its own stack, builds the table the message  *)
(* means, leaves it on top of what was on the Lua stack before, and stays  *)
(* within the slots Lua grants a C function.                               *)
TableExact == /\ phase = "script" => table = TableOf(source.type, source.package)
              /\ phase \in {"exit", "overrun"} => table # nil

(* Lua prints the number with an exponent, which stoll and stoull do not   *)
(* read.                                                                   *)
Misread(cpp_type, x) ==
    cpp_type \in Wide /\ x[1] \in {"float", "exponent"} /\ Abs(x[2]) > 2 * print_max

(* What the field has become, v, is what the script has set it to, x.      *)
Conveyed(cpp_type, x, v) ==
    CASE cpp_type = "BOOL" -> v = x[2]
      [] cpp_type = "STRING" -> IF isnumber(x) THEN isnumber(v) /\ Halves(v) = Halves(x)
                                ELSE c_str(x) = x => v = x
      [] cpp_type = "DOUBLE" -> Representable(Halves(x), double_bits) => v = Halves(x)
      [] cpp_type = "FLOAT" -> Representable(Halves(x), float_bits) => v = Halves(x)
      [] OTHER -> /\ v \in Holds(cpp_type)
                  /\ isnumber(x) /\ ~Misread(cpp_type, x)
                     => \A n \in Holds(cpp_type) : Halves(x) = 2 * n => v = n

RECURSIVE Conveys(_, _)
(* The message at the address, and those below it, say what the table      *)
(* says.  Of an array with a gap, all that is before the gap is taken.     *)
Conveys(ptr, t) ==
    LET FirstOf(x, n, field) ==
            SelectSeq([i \in 1 .. n |-> Get(x, Integer(i))],
                      LAMBDA y : IF field.cpp_type = "MESSAGE" THEN istable(y)
                                 ELSE Accepts(field.cpp_type, y))
        One(field, x, v) == IF field.cpp_type = "MESSAGE" THEN Conveys(v, x)
                            ELSE Conveyed(field.cpp_type, x, v)
        All(field, items, vs) == /\ Len(items) = Len(vs)
                                 /\ \A i \in DOMAIN vs : One(field, items[i], vs[i])
        Kept(field, x, v) ==
            IF field.repeated /\ istable(x)
            THEN \E n \in Min(Borders(x)) .. Max({0} \cup Indices(x)) : All(field, FirstOf(x, n, field), v)
            ELSE IF field.cpp_type = "MESSAGE" /\ istable(x) THEN All(field, <<x>>, v)
            ELSE IF ~field.repeated /\ Accepts(field.cpp_type, x) THEN One(field, x, v)
            ELSE v = DefaultValue(field)
    IN  \A field \in Range(Descriptor[heap[ptr].type]) :
            Kept(field, Get(t, Key(field.name)), heap[ptr].val[field.name])

RECURSIVE Visits(_, _)
(* The values of known fields in the table and in the tables below it.     *)
Visits(mtype, t) ==
    UNION {LET x == Get(t, Key(field.name))
               below == IF field.cpp_type # "MESSAGE" \/ ~istable(x) THEN {}
                        ELSE IF field.repeated THEN {y \in Range(Items(x)) : istable(y)} ELSE {x}
           IN  {<<field, x>>} \cup UNION {Visits(field.type, y) : y \in below} :
           field \in Range(Descriptor[mtype])}

(* An array of messages whose first element is not a table: its frames pop *)
(* one value too few.                                                      *)
Unpopped(field, x) == /\ field.repeated /\ field.cpp_type = "MESSAGE" /\ istable(x)
                      /\ n_in_array(x) > 0 /\ ~istable(Get(x, Integer(1)))

(* An array of messages that needs the slots beyond LUA_MINSTACK.          *)
TooLong(field, x) == /\ field.repeated /\ field.cpp_type = "MESSAGE" /\ istable(x)
                     /\ Len(SelectSeq(Items(x), istable)) > 19

(* A 64-bit field that is set to a string which begins with no integer, or *)
(* with one that 64 bits do not hold.                                      *)
Unreadable(cpp_type, x) ==
    LET TooLarge(n) == IF cpp_type = "UINT64" THEN Abs(n) >= 2^wide ELSE n \notin Holds("INT64")
    IN  /\ cpp_type \in Wide
        /\ \/ x[1] = "text" /\ \A n \in prefix(x[2]) : TooLarge(n)
           \/ isnumber(x) /\ ~Misread(cpp_type, x) /\ TooLarge(Truncated(Halves(x)))

Throws(field, x) ==
    IF field.repeated THEN istable(x) /\ \E y \in Range(Items(x)) : Unreadable(field.cpp_type, y)
    ELSE Unreadable(field.cpp_type, x)

(* lua2protobuf_nostack turns any table a script sends into the message it *)
(* means, whatever the order of lua_next and with either Lua: a value the  *)
(* field can hold arrives exactly, one of another type is left out and     *)
(* disturbs no other, and a number out of range becomes some number of the *)
(* field's type.  Two kinds of values are changed on the way: a string is  *)
(* cut at a NUL, and a large float set to a 64-bit field is read up to its *)
(* exponent.  The conversion fails exactly for an array of messages that   *)
(* does not begin with a message and for a 64-bit field that is set to a   *)
(* string stoll or stoull refuses, and it leaves the Lua stack only with   *)
(* more than 19 messages in an array; never by the assertion that the      *)
(* stack balances.                                                         *)
Converted ==
    LET visits == Visits(type, table)
    IN  /\ phase = "done" => /\ Conveys(1, table)
                             /\ \A v \in visits : ~Unpopped(v[1], v[2]) /\ ~Throws(v[1], v[2])
        /\ phase = "error" => \E v \in visits : Unpopped(v[1], v[2])
        /\ phase = "overrun" => \E v \in visits : TooLong(v[1], v[2])
        /\ phase = "thrown" => \E v \in visits : Throws(v[1], v[2])
        /\ phase # "exit"

(* Both conversions end: no frame is entered twice and no array is walked  *)
(* for ever.                                                               *)
Terminates == []<>(phase \notin {"push", "pull"})
=============================================================================
