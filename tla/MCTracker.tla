----------------------------- MODULE MCTracker -----------------------------
(* Torrents of one and of several files, files that are none, and trackers. *)
EXTENDS Tracker

MCAlphabet ==
  <<" 200 OK", "%", "&", "-">> \o Digits \o
  <<":", "=", "HTTP/1.0", "announce", "announce-list", "comment", "complete",
    "d", "e", "failure reason", "files", "http://", "i", "incomplete", "info",
    "interval", "l", "length", "name", "path", "peers", "piece length",
    "pieces", "host", "/", "CRLF", "~">>

MCReserved == {"%", "&", ":", "=", "/", "CRLF"}

MCHash(text) == IF Len(text) % 2 = 0 THEN <<"&", "%">> ELSE <<"=", "~">>

MCPeerId == <<"-", "1", "&">>

Hash1 == <<"e", "d">>
Hash2 == <<":", "1">>
Url(host_port) == <<"http://">> \o host_port \o <<"/", "announce">>

Single ==
  [announce |-> Url(<<"host", ":", "8", "0", "8", "0">>), announce_list |-> <<>>,
   comment |-> <<"~">>, name |-> <<"name">>, piece_length |-> 4,
   piece_hashes |-> <<Hash1, Hash2>>,
   files |-> <<[path |-> <<>>, length |-> 7]>>]

Several ==
  [Single EXCEPT
    !.announce = Url(<<"host">>),
    !.announce_list = <<<<Url(<<"host">>)>>, <<>>>>,
    !.files = <<[path |-> <<<<"d">>, <<"e">>>>, length |-> 3],
                [path |-> <<<<"i">>>>, length |-> 0],
                [path |-> <<<<"d">>, <<"l">>>>, length |-> 4]>>]

MCTorrents ==
  {Single, Several,
   [Single EXCEPT !.announce = <<"host">>],
   [Single EXCEPT !.files[1].length = 8],
   [Single EXCEPT !.files[1].length = 9],
   [Single EXCEPT !.files[1].length = 4]} \cup
  \* comments in which the text of the key appears, before the key
  {[Single EXCEPT !.comment = c] :
     c \in {<<"info">>, <<"1", ":", "info", "~">>}}

WithInfo(v) == [dict |-> (<<"announce">> :> Str(Url(<<"host">>))) @@ (<<"info">> :> v)]
InfoWith(key, v) == [dict |-> (key :> v) @@ InfoOf(Single).dict]
InfoWithout(key) ==
  [dict |-> [k \in DOMAIN InfoOf(Single).dict \ {key} |-> InfoOf(Single).dict[k]]]
ManyFiles(fs) == [dict |-> (<<"files">> :> [list |-> fs]) @@ InfoWithout(<<"length">>).dict]
OneFile(f) == ManyFiles(<<f>>)

FileEntry(length) ==
  [dict |-> (<<"length">> :> [int |-> length]) @@ (<<"path">> :> Strs(<<<<"d">>>>))]
Numbers(length, piece_length, hashes) ==
  [dict |-> (<<"length">> :> [int |-> length]) @@
            (<<"piece length">> :> [int |-> piece_length]) @@
            (<<"pieces">> :> Str(FlattenSeq(hashes))) @@ InfoOf(Single).dict]
OneHash(info) == [dict |-> (<<"pieces">> :> Str(Hash1)) @@ info.dict]

(* Numbers no torrent has: lengths whose sum is right although one of them  *)
(* is negative, or because it overflows; sums that overflow as they are     *)
(* rounded up to pieces; quotients that do not exist; negative pieces.      *)
MCBadNumbers ==
  {OneHash(ManyFiles(<<FileEntry(-1), FileEntry(5)>>)),
   OneHash(ManyFiles(<<FileEntry(IntMax), FileEntry(IntMax), FileEntry(6)>>)),
   Numbers(-1, 4, <<>>),
   Numbers(IntMax, IntMax, <<>>), Numbers(IntMax, IntMax, <<Hash1>>),
   Numbers(7, 0, <<Hash1>>), Numbers(1 - IntMax, -1, <<>>),
   Numbers(-1, -3, <<Hash1>>), Numbers(7, -4, <<Hash1>>)}

MCBadTexts ==
  {encode(v) : v \in
    {[int |-> 3], [list |-> <<>>], Str(<<"d">>),
     [dict |-> <<"info">> :> InfoOf(Single)],
     [dict |-> <<"announce">> :> [int |-> 1]],
     [dict |-> <<"announce">> :> Str(<<"host">>)],
     WithInfo([int |-> 1]), WithInfo([list |-> <<[int |-> 2]>>]), WithInfo(Str(<<"e">>)),
     WithInfo(InfoWith(<<"name">>, [int |-> 1])),
     WithInfo(InfoWith(<<"pieces">>, Str(<<"e">>))),
     WithInfo(InfoWith(<<"piece length">>, Str(<<>>))),
     WithInfo(InfoWithout(<<"length">>)),
     WithInfo(OneFile([int |-> 1])),
     WithInfo(OneFile([dict |-> <<"length">> :> [int |-> 1]])),
     WithInfo(OneFile([dict |-> (<<"length">> :> [int |-> 1]) @@
                                (<<"path">> :> [list |-> <<[int |-> 1]>>])]))}}
  \cup {encode(WithInfo(info)) : info \in MCBadNumbers}
  \* bytes behind the root value, where the search finds the key
  \cup {encode([dict |-> <<"announce">> :> Str(<<"host">>)]) \o KEY \o tail :
          tail \in {<<>>, <<"l">>, <<"i">>, <<"1">>, <<"~">>}}
  \* numbers that are none or do not fit
  \cup {<<"d", "1", ":", "announce", "i">> \o n \o <<"e", "e">> :
          n \in {<<>>, <<"-">>, <<"1", "~">>, <<"9", "9", "9", "9", "9">>}}
  \cup {<<"d", "9", ":", "announce", "e">>, <<"d", "i", "1", "e", "e">>}

MCHeaders == {<<"HTTP/1.0", " 200 OK", "CRLF", "e">>}

Answer(failure, ints, peers) == [failure |-> failure, ints |-> ints, peers |-> peers]
Peer(ip, port) == [ip |-> ip, port |-> port]

MCAnswers ==
  {Answer(<<>>, "interval" :> 60, <<Peer("%", 256 * 3 + 20), Peer("e", 256 * 26 + 33)>>),
   Answer(<<>>, ("complete" :> 3) @@ ("incomplete" :> 2000), <<Peer("d", 1)>>),
   Answer(<<>>, "interval" :> 0, <<Peer("e", 10)>>),
   Answer(<<>>, "interval" :> 2048, <<>>),
   Answer(<<"l">>, "interval" :> 60, <<>>)}

Reply(v) == <<"HTTP/1.0">> \o BlankLine \o encode(v)

MCBadReplies ==
  {<<"HTTP/1.0", "CRLF">>, Reply([int |-> 1]),
   Reply([dict |-> <<"peers">> :> Str(<<"e", "e">>)]),
   Reply([dict |-> <<"failure reason">> :> Str(<<>>)]),
   Reply([dict |-> <<"peers">> :> [list |-> <<>>]])}
=============================================================================
