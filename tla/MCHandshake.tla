----------------------------- MODULE MCHandshake -----------------------------
(***************************************************************************)
(* The requests of the run of Handshake.  Header values are as expected,   *)
(* in another case, with the word at the end, at the start, in the middle, *)
(* almost there, or not at all; a header is present, absent, not text, or  *)
(* there twice.                                                            *)
(***************************************************************************)
EXTENDS Handshake

UpgradeValues == {<<"w", "s">>, <<"W", "S">>, <<"w">>, <<"w", "s", "-">>}
ConnectionValues ==
  {<<"U", "p">>, <<"u", "P">>, <<"-", "-", "u", "p">>, <<"u", "U", "p", "-">>,
   <<"u", "p", "u">>, <<"p", "u">>, <<"u", "-", "p">>, <<"u">>, <<>>}
VersionValues == {<<"1", "3">>, <<"8">>}
MCKeys == {<<"k">>, <<"K">>}

MCNames == {"host", "upgrade", "connection", "key", "version", "other"}
MCChars == {"w", "s", "W", "S", "-", "U", "u", "P", "p", "1", "3", "8", "k", "K"}

Absent == <<>>
NotText(name) == <<[Line(name, <<>>) EXCEPT !.text = FALSE]>>
Lines(name, values) == {<<Line(name, v)>> : v \in values}

MCForeignRequests ==
  {u \o c \o v \o k :
     u \in Lines("upgrade", UpgradeValues) \cup {Absent},
     c \in Lines("connection", ConnectionValues)
             \cup {Absent, NotText("connection"),
                   <<Line("connection", <<"u">>), Line("connection", <<"u", "p">>)>>},
     v \in Lines("version", VersionValues) \cup {Absent},
     k \in Lines("key", {<<"k">>}) \cup {Absent, NotText("key")}} \ {<<>>}

(* Headers of the application's own, and with the names of the client's.   *)
MCAddedHeaders ==
  {Line("other", <<>>), Line("version", <<"8">>), Line("key", <<"K">>)}
=============================================================================
