---------------------------- MODULE MCJSONSize ----------------------------
(***************************************************************************)
(* The instance of JSONSize that is checked: all strings and lists of up   *)
(* to three elements, slices around the groups of base64, numbers around   *)
(* the decimal lengths and ints of eight bits; for the structs, all values *)
(* made of the values of Small.                                            *)
(***************************************************************************)
EXTENDS JSONSize, SequencesExt

MCMinInt == -128

Large ==
  [string |-> SeqOf(Chars, 3), bytes |-> Pointer(0 .. 7), int |-> -128 .. 127,
   uint64 |-> {0, 1, 9, 10, 99, 100, 65535}, bool |-> BOOLEAN,
   Coins |-> SeqOf(Coin({<< >>, <<"html", "invalid">>}), 3)]

Small(strings) ==
  [string |-> strings, bytes |-> {Nil, 4}, int |-> {0}, uint64 |-> {0, 10},
   bool |-> {TRUE}, Coins |-> SeqOf(Coin({<<"plain">>}), 2)]

Strings == {<<"wide", "control", "short">>, <<"separator">>}

\* A message with two packets has too many values to take two strings.
MCMeasured ==
  [t \in Types |->
     IF t \in DOMAIN Large THEN Large[t]
     ELSE Declared(Small(IF t = "IBCSourceCallbackMsg" THEN {<<"html">>} ELSE Strings))[t]]

=============================================================================
