------------------------------ MODULE MCCodec ------------------------------
(* A small instance of the report codec for TLC. *)
EXTENDS Codec

Digits == <<"0", "1", "2", "3", "4", "5", "6", "7", "8", "9">>
Upper == <<"A", "B", "C", "D", "E", "F", "G", "H", "I", "J", "K", "L", "M",
           "N", "O", "P", "Q", "R", "S", "T", "U", "V", "W", "X", "Y", "Z">>
Lower == <<"a", "b", "c", "d", "e", "f", "g", "h", "i", "j", "k", "l", "m",
           "n", "o", "p", "q", "r", "s", "t", "u", "v", "w", "x", "y", "z">>
Coded(letters, first) == [c \in ToSet(letters) |-> first - 1 + CHOOSE i \in DOMAIN letters : letters[i] = c]

\* ASCII, as far as it is used, and two bytes of UTF-8.
MCCode ==
    Coded(Digits, 48) @@ Coded(Upper, 65) @@ Coded(Lower, 97)
    @@ ("-" :> 45 @@ "." :> 46 @@ "_" :> 95 @@ "~" :> 126 @@ " " :> 32)
    @@ ("%" :> 37 @@ ";" :> 59 @@ "=" :> 61 @@ "," :> 44 @@ "\\" :> 92 @@ "]" :> 93)
    @@ ("BEL" :> 7 @@ "ESC" :> 27 @@ "xA9" :> 169 @@ "xC3" :> 195)

MCTokens == Names \cup States \cup Flags \cup DOMAIN MCCode \cup {"7877", "future", "mystery"}

MCAgents == {<<"a", ".">>}

\* Bytes that separate, escape or end things on the wire, and characters of two,
\* three and four bytes.
MCMessages == {<<>>, <<59>>, <<37, 51, 66>>, <<27, 92>>, <<7, 97>>, <<61>>, <<195, 169, 32>>,
               <<226, 130, 172>>, <<240, 159, 146, 161>>}

\* Unknown fields, one without `=`, known fields once more or instead of others,
\* and values that are not valid.
MCSpare == {Field("future", <<"7877">>), <<"=">>, <<"future">>, <<>>,
    Field("v", <<"2">>), Field("state", <<"none">>), Field("state", <<"mystery">>),
    Field("agent", <<"a">>), Field("agent", <<"a", " ">>), Field("agent", <<>>),
    Field("seq", <<"0", "2">>), Field("seq", <<"1", "2">>), Field("seq", <<"-", "1">>),
    Field("visible", <<"working", ",", "idle">>), Field("visible", <<"idle", ",", "idle">>),
    Field("exited", <<"1">>), Field("exited", <<"2">>),
    Field("message", <<"%", "3", "b", "=">>), Field("message", <<"%", "4">>),
    Field("message", <<"xC3">>), Field("message", <<"%", "c", "3", "xA9", "a">>),
    Field("message", <<"%", "E", "D", "%", "A", "0", "%", "8", "0">>),
    Field("message", <<"a", "a", "a", "a", "a">>), Field("message", <<"BEL", "a">>)}

MCEdited == [state : {"blocked", "none"}, agent : MCAgents \cup {Nothing}, seq : {10},
             visible : {{"idle", "working"}}, exited : {TRUE}, message : {Nothing, <<59>>}]

MCFrames == Proper \cup {[StFrame EXCEPT !.close = <<>>], [BelFrame EXCEPT !.open = <<>>]}
=============================================================================
