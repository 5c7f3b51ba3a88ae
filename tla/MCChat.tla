-------------------------------- MODULE MCChat --------------------------------
(***************************************************************************)
(* Chat with messages that look like the syntax around them.               *)
(***************************************************************************)
EXTENDS Chat

MCBytes ==
  {"'", "\\", "/", "[", "]", ",", ":", ".", "a", "b", "c", "f", "n", "r", "t", "u", "u+",
   "\n", "\r", "\t", "^A", "^H", "^L", "M", "S", "G",
   "0", "1", "2", "3", "4", "5", "6", "7", "8", "9"}

MCTexts ==
  { <<"'", ",", "\\", "n">>, <<"a", "\n", "^A", "^H", "^L">>, <<"]">>, <<"u", "u+", "1">>,
    <<"M", "S", "G", ":", "1", ":">>, <<"1", "2", "3", "4", "5", "6", "7", "8", "9", ":">>,
    [i \in 1..11 |-> "1"] }

MCIp == <<"7", ".", "1">>
=============================================================================
