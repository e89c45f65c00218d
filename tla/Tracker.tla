------------------------------ MODULE Tracker ------------------------------
(***************************************************************************)
(* tracker_announce (tracker.cpp) and the thread that repeats it           *)
(* (Session::tracker_thread): the request is built from the Metainfo that  *)
(* MetainfoParse read, the answer comes in whatever parts recv returns and *)
(* may break off, and what is made of it decides the next request.         *)
(***************************************************************************)
EXTENDS MetainfoParse

CONSTANTS
  SHA1Of(_),     \* the digest of a text, DigestSize symbols
  peer_id,       \* peer_id_
  Reserved,      \* the symbols that RFC 3986 does not leave unreserved
  Headers,       \* what servers send before the body, blank line excluded
  Answers,       \* what trackers mean: [failure, ints, peers]
  BadReplies,    \* replies that are no tracker's answer
  BufferSize,    \* sizeof buf: the most that one recv returns (4096)
  Int32Half,     \* int32_t holds -Int32Half .. Int32Half - 1
  MaxAnnounces   \* bound on the announces of a run

VARIABLES
  tracking,      \* where the announcing thread is: "idle", "sent", "receiving",
                 \* "loop" (between two announces), "failed" or "stopped"
  caller,        \* who announces: "start", "thread" or "last"
  event,         \* the event announced
  request,       \* the request sent, [host, port, path, query]
  told,          \* the amounts it should tell, [downloaded, left]
  incoming,      \* what the server sends and recv has not returned yet
  response,      \* what recv has returned
  answer,        \* what the tracker means, Nobody if nothing (not in the code)
  whole,         \* whether all of its reply was received (not in the code)
  result,        \* how the last announce ended: "none", "ok", "rejected", "threw"
  last,          \* last_tracker_resp_
  tame,          \* every interval sent was positive and fits (not in the code)
  announces      \* how many were made (not in the code)

trackerVars == <<tracking, caller, event, request, told, incoming, response,
                 answer, whole, result, last, tame, announces>>

vars == <<metaVars, trackerVars>>

DefaultInterval == 1800

NoResponse == [interval |-> DefaultInterval, complete |-> 0, incomplete |-> 0, peers |-> <<>>]

Init ==
  /\ MetaInit
  /\ tracking = "idle" /\ caller = "start" /\ event = "none"
  /\ request = <<>> /\ told = <<>>
  /\ incoming = <<>> /\ response = <<>>
  /\ answer = Nobody /\ whole = FALSE
  /\ result = "none" /\ last = NoResponse
  /\ tame = TRUE /\ announces = 0

-----------------------------------------------------------------------------
(* The request *)

HEX == Digits \o <<"A", "B", "C", "D", "E", "F">>

NothingEncoded(c) == <<c>>   \* faulty variant: raw bytes in the query

EncodeByte(c) ==
  LET byte == Byte(c) - 1 IN
  IF c \in Reserved THEN <<"%", HEX[(byte \div 16) + 1], HEX[(byte % 16) + 1]>> ELSE <<c>>

url_encode(text) == FlattenSeq([n \in DOMAIN text |-> EncodeByte(text[n])])

(* The port is what stoul makes of the text, cut to 16 bits. *)
parse_url(url) ==
  LET rest      == Tail(url)
      slash     == find(rest, "/", 1)
      host_port == IF slash = 0 THEN rest ELSE SubSeq(rest, 1, slash - 1)
      colon     == find(host_port, ":", 1)
  IN [host |-> IF colon = 0 THEN host_port ELSE SubSeq(host_port, 1, colon - 1),
      port |-> IF colon = 0 THEN 80
               ELSE Value(LeadingDigits(SubSeq(host_port, colon + 1, Len(host_port)))) % 65536,
      path |-> IF slash = 0 THEN <<"/">> ELSE SubSeq(rest, slash, Len(rest))]

UrlValid(url) ==
  LET slash == find(url, "/", 1)
      colon == find(url, ":", 1)
      port  == IF colon # 0 /\ (slash = 0 \/ colon < slash) THEN colon + 1 ELSE 0
  IN /\ url # <<>> /\ Head(url) = "http://"
     /\ port # 0 => port <= Len(url) /\ IsDigit(url[port])

LOCAL_PORT == 0

Param(key, value) == <<"&", key, "=">> \o value

build_query_string(downloaded, left, ev) ==
  <<"info_hash", "=">> \o url_encode(SHA1Of(meta.raw_info)) \o
  Param("peer_id", url_encode(peer_id)) \o
  Param("port", Decimal(LOCAL_PORT)) \o
  Param("uploaded", Decimal(0)) \o
  Param("downloaded", Decimal(downloaded)) \o
  Param("left", Decimal(left)) \o
  Param("compact", Decimal(1)) \o
  (IF ev = "" THEN <<>> ELSE Param("event", <<ev>>))

(* The call fails: start throws and there is no download, the thread tries  *)
(* again later, the last announce is given up.                             *)
AfterFailure ==
  [start |-> "failed", thread |-> "loop", last |-> "stopped"][caller]

(* tracker_announce is left, and what was local to it is gone. *)
Leaves(outcome) ==
  /\ result' = outcome
  /\ whole' = (incoming = <<>>)
  /\ request' = <<>> /\ told' = <<>> /\ incoming' = <<>> /\ response' = <<>>
  /\ UNCHANGED <<metaVars, caller, event, answer, tame, announces>>

Throwing == Leaves("threw") /\ tracking' = AfterFailure /\ UNCHANGED last

(* tracker_announce is entered. *)
Announce(who, ev, downloaded) ==
  LET url  == parse_url(meta.announce)
      left == meta.total_length - downloaded
  IN
  /\ announces < MaxAnnounces
  /\ announces' = announces + 1
  /\ caller' = who /\ event' = ev
  /\ told' = [downloaded |-> downloaded, left |-> left]
  /\ tracking' = "sent"
  /\ request' = IF UrlValid(meta.announce)
                  THEN [host |-> url.host, port |-> url.port, path |-> url.path,
                        query |-> build_query_string(downloaded, left, ev)]
                  ELSE <<>>
  /\ result' = "none"
  /\ answer' = Nobody /\ whole' = FALSE
  /\ UNCHANGED <<metaVars, incoming, response, last, tame>>

FirstAnnounce ==
  parsing = "done" /\ tracking = "idle" /\ Announce("start", "started", 0)

Downloaded == {done * meta.piece_length : done \in 0 .. Len(meta.piece_hashes)}

NextEvent == IF last.interval > 0 THEN "" ELSE "started"

RegularAnnounce ==
  /\ tracking = "loop"
  /\ \E downloaded \in Downloaded : Announce("thread", NextEvent, downloaded)

LastAnnounce ==
  /\ tracking = "loop"
  /\ \E ev \in {"completed", "stopped"} : \E downloaded \in Downloaded :
       Announce("last", ev, downloaded)

(* The URL is no HTTP, or getaddrinfo, socket, connect or send fails. *)
CannotSend == tracking = "sent" /\ Throwing

-----------------------------------------------------------------------------
(* The tracker: an external program that speaks BEP 3 and BEP 23, or not.   *)

BlankLine == <<"CRLF", "CRLF">>

PeerBytes(p) == <<p.ip, Alphabet[(p.port \div 256) + 1], Alphabet[(p.port % 256) + 1]>>

AnswerValue(a) ==
  [dict |->
    (IF a.failure = <<>> THEN <<>> ELSE (<<"failure reason">> :> Str(a.failure))) @@
    [key \in {<<word>> : word \in DOMAIN a.ints} |-> [int |-> a.ints[key[1]]]] @@
    (<<"peers">> :> Str(FlattenSeq([n \in DOMAIN a.peers |-> PeerBytes(a.peers[n])])))]

IntervalTame(a) ==
  "interval" \in DOMAIN a.ints => a.ints["interval"] \in 1 .. Int32Half - 1

ServerReplies ==
  /\ tracking = "sent" /\ request # <<>>
  /\ tracking' = "receiving"
  /\ \/ \E header \in Headers : \E a \in Answers :
          /\ incoming' = header \o BlankLine \o encode(AnswerValue(a))
          /\ answer' = a
          /\ tame' = (tame /\ IntervalTame(a))
     \/ incoming' \in BadReplies /\ UNCHANGED <<answer, tame>>
  /\ UNCHANGED <<metaVars, caller, event, request, told, response, whole, result,
                 last, announces>>

-----------------------------------------------------------------------------
(* The answer *)

RecvSome(n) ==
  /\ tracking = "receiving"
  /\ n <= Len(incoming)
  /\ response' = response \o SubSeq(incoming, 1, n)
  /\ incoming' = SubSeq(incoming, n + 1, Len(incoming))
  /\ UNCHANGED <<metaVars, tracking, caller, event, request, told, answer,
                 whole, result, last, tame, announces>>

(* recv returns 0 at the end of the reply, or before it an error, or 0 when  *)
(* the connection is cut: the loop does not tell them apart.               *)
NoMore == tracking = "receiving"

Separator == FirstPlace(response, BlankLine)

Body == SubSeq(response, Separator + Len(BlankLine), Len(response))

PeerSize == 3   \* 6: an address is one symbol here, a port is two

(* A 64-bit number cut to int32_t. *)
int32(n) == ((n + Int32Half) % (2 * Int32Half)) - Int32Half

get_int(d, key, def) == IF HasInt(d, key) THEN int32(d[key].int) ELSE def

LittleEndianPort(hi, lo) == 256 * (Byte(lo) - 1) + Byte(hi) - 1   \* faulty variant

ntohs(hi, lo) == 256 * (Byte(hi) - 1) + Byte(lo) - 1

parse_compact_peers(text) ==
  [n \in 1 .. Len(text) \div PeerSize |->
    LET i == (n - 1) * PeerSize IN
    [ip |-> text[i + 1], port |-> ntohs(text[i + 2], text[i + 3])]]

Response(d) ==
  [interval   |-> get_int(d, <<"interval">>, DefaultInterval),
   complete   |-> get_int(d, <<"complete">>, 0),
   incomplete |-> get_int(d, <<"incomplete">>, 0),
   peers      |-> IF HasString(d, <<"peers">>)
                    THEN parse_compact_peers(d[<<"peers">>].str) ELSE <<>>]

ok(failure) == failure = <<>>

(* What the caller does with a response that came back without exception:   *)
(* start throws when the tracker rejects it, the thread stores it anyway.  *)
Returns(outcome, resp) ==
  /\ Leaves(outcome)
  /\ last' = IF caller = "last" \/ (caller = "start" /\ outcome = "rejected")
               THEN last ELSE resp
  /\ tracking' = IF caller = "start" /\ outcome = "ok" THEN "loop" ELSE AfterFailure

ZeroedResponse == [NoResponse EXCEPT !.interval = 0]   \* faulty variant

(* failure reason is read first; all the rest keeps its default value.     *)
RejectedResponse == NoResponse

(* The body as a dictionary, if it is one behind a blank line. *)
AnswerDict ==
  LET bv == IF Separator = 0 THEN Throws ELSE decode(Body)
  IN IF ~Failed(bv) /\ is_dict(bv.val) THEN {bv.val.dict} ELSE {}

HasFailure(d) == HasString(d, <<"failure reason">>)

PeersWhole(d) == HasString(d, <<"peers">>) => Len(d[<<"peers">>].str) % PeerSize = 0

(* No dictionary, or half a peer: an exception. *)
Unreadable ==
  /\ NoMore
  /\ \A d \in AnswerDict : ~HasFailure(d) /\ ~PeersWhole(d)
  /\ Throwing

ReadFailure ==
  /\ NoMore
  /\ \E d \in AnswerDict :
       /\ HasFailure(d)
       /\ Returns(IF ok(d[<<"failure reason">>].str) THEN "ok" ELSE "rejected",
                  RejectedResponse)

ReadResponse ==
  /\ NoMore
  /\ \E d \in AnswerDict :
       ~HasFailure(d) /\ PeersWhole(d) /\ Returns("ok", Response(d))

TrackerNext ==
  \/ FirstAnnounce \/ RegularAnnounce \/ LastAnnounce \/ CannotSend
  \/ ServerReplies
  \/ \E n \in 1 .. BufferSize : RecvSome(n)
  \/ Unreadable \/ ReadFailure \/ ReadResponse

Next ==
  \/ parsing # "done" /\ MetaNext /\ UNCHANGED trackerVars
  \/ TrackerNext

Spec == Init /\ [][Next]_vars

-----------------------------------------------------------------------------
(* Properties *)

(* The request as a server reads it: fields between "&", bytes decoded.     *)
PercentDecoded(text) ==
  LET nibble(c) == SelectInSeq(HEX, LAMBDA h : h = c) - 1
      from[p \in 1 .. Len(text) + 1] ==
        IF p > Len(text) THEN <<>>
        ELSE IF text[p] = "%"
          THEN <<Alphabet[16 * nibble(text[p + 1]) + nibble(text[p + 2]) + 1]>> \o from[p + 3]
          ELSE <<text[p]>> \o from[p + 1]
  IN from[1]

Field(query, key) ==
  LET place == FirstPlace(<<"&">> \o query, <<"&", key, "=">>)
      ends  == find(query, "&", place + 2)
  IN IF place = 0 THEN <<>>
     ELSE PercentDecoded(SubSeq(query, place + 2, IF ends = 0 THEN Len(query) ELSE ends - 1))

(* Whatever bytes the digest and the peer id are made of, the tracker reads *)
(* from the query the torrent it knows by this name, who asks, how far the  *)
(* download is and which event; the bytes do not spill into other fields.   *)
RequestNamesTorrent ==
  tracking = "sent" /\ request # <<>> =>
    /\ Field(request.query, "info_hash") = SHA1Of(meta.raw_info)
    /\ Field(request.query, "peer_id") = peer_id
    /\ Field(request.query, "downloaded") = Decimal(told.downloaded)
    /\ Field(request.query, "left") = Decimal(told.left)
    /\ Field(request.query, "event") = IF event = "" THEN <<>> ELSE <<event>>

(* A response is what the tracker means and all of it: a reply that breaks  *)
(* off anywhere is never taken for a shorter one, however recv cuts it, and *)
(* its peers and numbers come out as they were sent.                       *)
AnswerTakenWhole ==
  result = "ok" /\ caller # "last" /\ answer # Nobody =>
    /\ whole /\ answer.failure = <<>>
    /\ last.peers = answer.peers
    /\ \A word \in {"interval", "complete", "incomplete"} :
         LET n == IF word \in DOMAIN answer.ints THEN answer.ints[word]
                                                 ELSE NoResponse[word]
         IN n \in -Int32Half .. Int32Half - 1 => last[word] = n

(* "started" is announced once: after that only a tracker that asks for an  *)
(* interval of no seconds, or of one that int32_t cannot hold, hears it     *)
(* again, whatever failures, rejections and defaults come between.         *)
StartedOnce == tame /\ caller = "thread" => event = ""
=============================================================================
