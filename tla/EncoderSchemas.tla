--------------------------- MODULE EncoderSchemas ---------------------------
(* Settings of encoders and requests for instances of GenericSettings: a   *)
(* software encoder, and a hardware encoder with other ranges.             *)
EXTENDS Integers

Number(name, min, max, step) ==
    [name |-> name, kind |-> "integer", min |-> min, max |-> max, step |-> step]
Choice(n, off) == [is |-> <<n>>, disabled |-> off]
List(name, editable, items) ==
    [name |-> name, kind |-> "list", format |-> "string", editable |-> editable, items |-> items]
PropertyGroup(name, checkable, properties) ==
    [name |-> name, kind |-> "group", checkable |-> checkable, properties |-> properties]
Rate == [name |-> "rate", kind |-> "frame rate", options |-> {1},
         ranges |-> {[min |-> <<24, 1>>, max |-> <<30000, 1001>>]}]

Software ==
    << List("rate_control", FALSE, <<Choice(2, FALSE), Choice(1, FALSE)>>),
       Number("bitrate", 50, 250, 100), Number("crf", 0, 51, 1),
       [name |-> "x264opts", kind |-> "text"],
       PropertyGroup("advanced", FALSE,
           << List("preset", FALSE, <<Choice(1, FALSE), Choice(2, TRUE)>>) >>) >>

Hardware ==
    << List("rate_control", FALSE, <<Choice(1, TRUE), Choice(2, FALSE)>>),
       Number("bitrate", 100, 200, 0),
       PropertyGroup("expert", TRUE,
           << List("preset", TRUE, <<>>), Rate,
              [name |-> "gain", kind |-> "float", min |-> 0, max |-> 10] >>) >>

TwoSchemas == {Software, Hardware}

(* Values below, at, inside and above the limits, on and off the steps. *)
ManyEncoders ==
    [x264 : BOOLEAN, crf : {<<>>, <<0>>, <<23>>, <<120>>}, bitrate : {50, 100, 150, 300},
     preset : {0, 1, 2}, options : {0, 1}]

Value(type, is) == [type |-> type, is |-> is]
SomeValues ==
    {Value("frame rate", <<n, d, o>>) :
        <<n, d, o>> \in {<<25, 1, 0>>, <<30, 1, 0>>, <<60000, 2002, 0>>, <<25, 0, 0>>,
                         <<0, 0, 1>>, <<0, 0, 2>>}}
    \cup {Value("float", <<>>), Value("float", <<3>>), Value("float", <<11>>),
          Value("boolean", <<1>>), Value("integer", <<150>>), Value("string", <<2>>)}

PairsOfSettings ==
    {<<[name |-> n, value |-> v], [name |-> n, value |-> w]>> :
        n \in {"rate", "gain", "expert", "advanced", "preset"}, v \in SomeValues, w \in SomeValues}
=============================================================================
