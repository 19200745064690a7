------------------------------ MODULE MCTerminal ------------------------------
(* Keys for a, A, 1, a blank, both quoting characters and the slash.  Bytes  *)
(* at the borders of UTF-8's ranges, a slash, a letter, and those a message   *)
(* must escape.  Two titles that differ in case only, one that ends in a     *)
(* number, one with a quote.  The range of an int is scaled to 400.          *)
EXTENDS Terminal

MCKeys == {<<97>>, <<65>>, <<49>>, <<32>>, <<34>>, <<92>>, <<47>>}
MCBytes == {47, 97, 10, 27, 127, 128, 144, 160, 193, 195, 224, 240, 244}
MCAlbums == <<<<97>>, <<65>>, <<97, 32, 49>>, <<97, 34>>>>
MCThemes == <<<<65>>, <<97, 97>>>>
MCOutputs == {<<>>, <<<<97>>>>}
MCLines == {[verb |-> "", args |-> <<>>], [verb |-> "mute", args |-> <<97>>],
            [verb |-> "help", args |-> <<>>], [verb |-> "albums", args |-> <<>>],
            [verb |-> "songs", args |-> <<97>>],
            [verb |-> "songs", args |-> <<>>],
            [verb |-> "play", args |-> <<>>], [verb |-> "next", args |-> <<>>],
            [verb |-> "volume", args |-> <<43, 53, 48>>],
            [verb |-> "volume", args |-> <<45, 53, 48>>],
            [verb |-> "volume", args |-> <<49, 48, 49>>],
            [verb |-> "volume", args |-> <<43, 51, 57, 57>>],
            [verb |-> "output", args |-> <<49>>], [verb |-> "quit", args |-> <<>>]}
===============================================================================
