-------------------------------- MODULE Http --------------------------------
(***************************************************************************)
(* Web pages (network.cpp) and those who ask for them: translations and    *)
(* definitions of plugin-diction, questions of plugin-trivial.  A response *)
(* is a stream of lines, chunk sizes and bytes, and may end anywhere.      *)
(***************************************************************************)
EXTENDS Naturals, Sequences, SequencesExt, FiniteSets

CONSTANTS
    Octets,       \* of what pages are made
    SetCookies,   \* a domain and path, and a value
    Responses,    \* what servers may answer, see Stream
    Languages,    \* langmap
    MaxOptions,   \* definitions !dict lists
    MaxFetches    \* bound: lookups

VARIABLES
    response,     \* the answer of the server to the last request
    stream,       \* what is left of it in the socketstream
    stage,        \* "idle", "headers", "cookies", "data", "chunks", "page", "failed"
    lookup,       \* "trans", "dict" or "quiz"
    headers,      \* the header_map
    jar,          \* get_http's cookies, by domain and path
    page,         \* html
    replies,      \* what the lookup has answered
    fetches       \* lookups so far

httpVars == <<response, stream, stage, lookup, headers, jar, page, replies, fetches>>

Unit(kind, val) == [kind |-> kind, val |-> val]

(* Headers that say nothing of the body: cookies, and a content-length     *)
(* that is no number, which the code logs and passes over.                 *)
Others == [kind : {"set-cookie"}, val : SetCookies] \cup {Unit("bad-length", "")}

(* No chunk but the last is empty.                                         *)
ASSUME ResponsesAssumption ==
    Responses \subseteq [status : STRING, framing : {"chunked", "length", "none"},
                         chunks : Seq(Seq(Octets) \ {<<>>}), others : Seq(Others)]

Body(r) == FlattenSeq(r.chunks)

(* The framing is a content-length, chunks, or the end of the connection.  *)
BodyUnits(r) ==
    IF r.framing = "chunked"
    THEN FlattenSeq([i \in DOMAIN r.chunks |->
                        <<Unit("size", Len(r.chunks[i]))>> \o r.chunks[i]])
         \o <<Unit("size", 0)>>
    ELSE Body(r)

Stream(r) ==
    <<Unit("status", r.status)>>
    \o r.others
    \o (IF r.framing = "chunked" THEN <<Unit("transfer-encoding", "chunked")>>
        ELSE IF r.framing = "length" THEN <<Unit("content-length", Len(Body(r)))>>
        ELSE <<>>)
    \o <<Unit("blank", "")>> \o BodyUnits(r)

NoResponse == [status |-> "", framing |-> "none", chunks |-> <<>>, others |-> <<>>]

HttpInit ==
    /\ response = NoResponse /\ stream = <<>> /\ stage = "idle" /\ lookup = "quiz"
    /\ headers = <<>> /\ jar = [k \in {} |-> <<>>] /\ page = <<>>
    /\ replies = <<>> /\ fetches = 0

(* open, GET, and whatever of an answer arrives; nothing if open fails.    *)
Asked ==
    /\ stage = "idle" /\ fetches < MaxFetches /\ fetches' = fetches + 1
    /\ \E r \in Responses : \E n \in 0 .. Len(Stream(r)) :
          response' = r /\ stream' = SubSeq(Stream(r), 1, n)
    /\ stage' = "headers" /\ headers' = <<>>
    /\ UNCHANGED <<jar, replies>>

(* get_http leaves html as the last page made it.                          *)
GetHttp == Asked /\ lookup' = "quiz" /\ UNCHANGED page

(* !trans: two languages, or an answer at once.                            *)
Trans(from, to) ==
    /\ page' = <<>> /\ lookup' = "trans"
    /\ IF from = "" \/ to = "" \/ from \notin Languages \/ to \notin Languages
         THEN /\ stage = "idle" /\ stage' = "failed" /\ fetches' = fetches + 1
              /\ fetches < MaxFetches
              /\ replies' = Append(replies, IF from = "" \/ to = "" THEN "usage"
                                            ELSE "not understood")
              /\ UNCHANGED <<response, stream, headers, jar>>
         ELSE Asked

(* !dict is google_dict; ddg_dict does the same elsewhere.                 *)
Dict == Asked /\ page' = <<>> /\ lookup' = "dict"

(* read_http_headers: a status that is not "200 OK" is logged, and the     *)
(* rest is read all the same, up to a blank line or the end of the stream, *)
(* which is a failure.                                                     *)
ReadHeaders ==
    /\ stage = "headers"
    /\ LET n == SelectInSeq(stream, LAMBDA u : u.kind = "blank")
       IN  IF n = 0 THEN stage' = "failed" /\ UNCHANGED <<stream, headers>>
           ELSE /\ stage' = "cookies" /\ headers' = SubSeq(stream, 2, n - 1)
                /\ stream' = SubSeq(stream, n + 1, Len(stream))
    /\ UNCHANGED <<response, lookup, jar, page, replies, fetches>>

(* read_http_cookies: one cookie for each domain and path.                 *)
ReadCookies ==
    /\ stage = "cookies" /\ stage' = "data"
    /\ LET Keep(j, u) ==
               IF u.kind # "set-cookie" THEN j
               ELSE [p \in DOMAIN j \cup {u.val[1]} |->
                        IF p = u.val[1] THEN u.val[2] ELSE j[p]]
       IN  jar' = IF lookup = "quiz" THEN FoldLeft(Keep, jar, headers) ELSE jar
    /\ UNCHANGED <<response, stream, lookup, headers, page, replies, fetches>>

(* The bytes there are, at most n of them.                                 *)
Take(s, n) == SubSeq(s, 1, IF n < Len(s) THEN n ELSE Len(s))

\* a plausible mistake: the state of the stream is not looked at
MutReadAll(s, n) == [good |-> TRUE, data |-> Take(s, n)]

ReadAll(s, n) == [good |-> Len(s) >= n, data |-> Take(s, n)]

HeaderAt(kind) == SelectInSeq(headers, LAMBDA u : u.kind = kind)

(* read_http_response_data: in the order of the keys of the map; with no   *)
(* length, or one that is no number and no chunks either, nothing is read  *)
(* and the stream is as good as before.                                    *)
ReadData ==
    /\ stage = "data"
    /\ IF HeaderAt("content-length") # 0
         THEN LET all == ReadAll(stream, headers[HeaderAt("content-length")].val)
              IN  page' = all.data /\ stage' = IF all.good THEN "page" ELSE "failed"
       ELSE IF HeaderAt("transfer-encoding") # 0 THEN page' = <<>> /\ stage' = "chunks"
       ELSE page' = page /\ stage' = "page"
    /\ UNCHANGED <<response, stream, lookup, headers, jar, replies, fetches>>

(* read_chunked_encoding, one turn of the loop: a size and as many bytes,  *)
(* until the size is 0; the stream fails if it ends before.                *)
ReadChunk ==
    /\ stage = "chunks"
    /\ \/ stream = <<>> /\ stage' = "failed" /\ UNCHANGED <<page, stream>>
       \/ stream # <<>> /\ stream[1].val = 0 /\ stage' = "page" /\ UNCHANGED <<page, stream>>
       \/ /\ stream # <<>> /\ stream[1].val > 0
          /\ LET bytes == Take(Tail(stream), stream[1].val)
             IN  /\ page' = page \o bytes
                 /\ stream' = SubSeq(stream, Len(bytes) + 2, Len(stream))
                 /\ stage' = IF Len(bytes) < stream[1].val THEN "failed" ELSE "chunks"
    /\ UNCHANGED <<response, lookup, headers, jar, replies, fetches>>

Count(val) == Len(SelectSeq(page, LAMBDA u : u.val = val))
Times(n, reply) == [i \in 1 .. n |-> reply]

(* !trans: the first <div> of that class, or a word that there is none.    *)
TransReplies == <<IF Count("translation") > 0 THEN "translation" ELSE "none">>

(* !dict: the snippet, and no more than so many of the options.            *)
DictReplies ==
    Times(IF Count("snippet") > 0 THEN 1 ELSE 0, "snippet")
    \o Times(IF Count("option") < MaxOptions THEN Count("option") ELSE MaxOptions,
             "option")

Answered ==
    /\ stage = "page" /\ stage' = "idle"
    /\ replies' = IF lookup = "trans" THEN TransReplies
                  ELSE IF lookup = "dict" THEN DictReplies ELSE <<>>
    /\ UNCHANGED <<response, stream, lookup, headers, jar, page, fetches>>

(* A failure is logged, and the user hears nothing more.                   *)
GivenUp ==
    /\ stage = "failed" /\ stage' = "idle" /\ replies' = <<>>
    /\ UNCHANGED <<response, stream, lookup, headers, jar, page, fetches>>

HttpNext ==
    \/ GetHttp \/ Dict \/ ReadHeaders \/ ReadCookies \/ ReadData \/ ReadChunk
    \/ Answered \/ GivenUp
    \/ \E from, to \in Languages \cup {"", "xx"} : Trans(from, to)

HttpSpec == HttpInit /\ [][HttpNext]_httpVars
-----------------------------------------------------------------------------
(* What is taken for a page is the whole body of the response, however it  *)
(* was framed, wherever the connection broke and whatever the status was;  *)
(* only if the server gave no length that can be read is it empty, or for  *)
(* the quiz still the page before.                                         *)
PagesWhole ==
    stage = "page" /\ response.framing # "none" => page = Body(response)

(* network.h: without a 200 OK "the stream is set to a fail state and the  *)
(* headers are not read".                                                  *)
PageIsOk == stage = "page" => response.status = "200 OK"
=============================================================================
