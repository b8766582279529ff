----------------------------- MODULE MCLuaPlugin -----------------------------
(* The registered messages of proto_lua.proto and proto_example.proto.     *)
EXTENDS LuaPlugin

Scalar(name, cpp_type) == [name |-> name, cpp_type |-> cpp_type, repeated |-> FALSE, type |-> ""]
Array(name, cpp_type) == [name |-> name, cpp_type |-> cpp_type, repeated |-> TRUE, type |-> ""]
Sub(name, mtype) == [name |-> name, cpp_type |-> "MESSAGE", repeated |-> FALSE, type |-> mtype]
SubArray(name, mtype) == [name |-> name, cpp_type |-> "MESSAGE", repeated |-> TRUE, type |-> mtype]

Protocol ==
    [ProtoLuaTest |-> <<Scalar("num", "INT32"), Array("int32array", "INT32"),
                        Sub("data", "ProtoLuaTestData")>>,
     ProtoLuaTestData |-> <<Scalar("str", "STRING"), Array("strarray", "STRING"),
                            SubArray("inner_array", "ProtoLuaTestInner"),
                            Sub("inner", "ProtoLuaTestInner")>>,
     ProtoLuaTestInner |-> <<Scalar("double_val", "DOUBLE"), Scalar("float_val", "FLOAT"),
                             Scalar("int32_val", "INT32"), Scalar("int64_val", "INT64"),
                             Scalar("uint32_val", "UINT32"), Scalar("uint64_val", "UINT64"),
                             Scalar("bool_val", "BOOL"), Scalar("str_val", "STRING")>>,
     ProtoCSReqExample |-> <<Scalar("testContext", "STRING")>>]

Factory == {"ProtoLuaTest", "ProtoCSReqExample"}

Inner(n) ==
    [double_val |-> 5, float_val |-> -6, int32_val |-> -4, int64_val |-> n % 16, uint32_val |-> 7,
     uint64_val |-> 31, bool_val |-> TRUE, str_val |-> <<"digits", n>>]

Data(items) == [Default("ProtoLuaTestData") EXCEPT !.inner_array = items,
                                                   !.strarray = <<<<"text", "head\\0tail">>>>]

Test(items) == [type |-> "ProtoLuaTest",
                package |-> [Default("ProtoLuaTest") EXCEPT !.int32array = <<3, -4>>,
                                                            !.data = <<Data(items)>>]]

(* As many elements as the Lua stack has room for, and one more.           *)
Long == {Test([i \in 1 .. n |-> Inner(i)]) : n \in {19, 20}}

Received == Long \cup {Test([i \in 1 .. n |-> Inner(i)]) : n \in {0, 1, 2}}

AllKeys == <<<<"text", "unknown">>, <<"text", "num">>, <<"text", "int32array">>, <<"text", "data">>,
          <<"text", "str">>, <<"text", "inner">>, <<"text", "inner_array">>, <<"text", "strarray">>,
          <<"text", "double_val">>, <<"text", "float_val">>, <<"text", "int32_val">>,
          <<"text", "int64_val">>, <<"text", "uint32_val">>, <<"text", "uint64_val">>,
          <<"text", "bool_val">>, <<"text", "str_val">>, <<"text", "testContext">>,
          <<"boolean", TRUE>>>> \o [i \in 1 .. 2 |-> Integer(i)]

(* Numbers a field can hold, and 2.5, 12, 20, 40 and -1, in and out of the *)
(* ranges of the fields and written in every way; words; other types.      *)
Wrong ==
    {<<"integer", 3>>, <<"float", 5>>, <<"float", 24>>, <<"digits", 20>>, <<"digits", 40>>,
     <<"digits", -1>>, <<"text", "word">>, <<"text", "2abc">>, <<"boolean", TRUE>>, NewTable}

UpToNul(s) == IF s = <<"text", "head\\0tail">> THEN <<"text", "head">> ELSE s

Digits(s) == IF s = "2abc" THEN {2} ELSE {}
=============================================================================
