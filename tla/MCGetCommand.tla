---------------------------- MODULE MCGetCommand ----------------------------
EXTENDS GetCommand

\* Characters: "g" spells the command, "k" the keys.
MCSpace == " "
MCNul == "NUL"
MCGetWord == <<"g">>

\* "g", or " g", then up to six characters of keys and spaces: lines with
\* no key, one to three keys, long keys, runs of spaces and trailing spaces.
MCLines ==
    {p \o s : p \in {<<"g">>, <<" ", "g">>}, s \in BoundedSeq({" ", "k"}, 6)}

MCStored == {<<"k">>}
====
