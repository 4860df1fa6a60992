----------------------------- MODULE TestServer -----------------------------
(***************************************************************************)
(* irc_server of test-server.cpp: a thread sorts what an IRC server sends  *)
(* into responses and traffic, and any number of threads take theirs out:  *)
(* async_whois the replies about its nick, async_get_traffic whatever is   *)
(* next.  Nothing ever sets done.                                          *)
(***************************************************************************)
EXTENDS Naturals, Sequences, SequencesExt, Selections

CONSTANTS
    Callers,      \* threads that call async_whois
    WhoisNicks,   \* whom they ask about
    MaxWhois,     \* bound: requests
    MaxUnasked    \* bound: other messages of the server

VARIABLES
    sent,          \* sent by the server and not read by async_queue
    responses,     \* answers nobody has taken yet
    traffic,       \* everything else
    response_mode,
    logged_in,
    whois,         \* per caller: whom it asks about and what it has, or NoWhois
    late,          \* callers, and "traffic", whose end_point has passed
    asks,          \* requests so far
    unasked,       \* other messages so far
    spoiled        \* nicks asked about twice at a time, or in vain

testVars == <<sent, responses, traffic, response_mode, logged_in, whois, late,
              asks, unasked, spoiled>>

ASSUME TestServerAssumption == "" \notin WhoisNicks

NoWhois == [nick |-> "", res |-> <<>>]

WhoisResponses == {"user", "channels", "server", "end"}
Responses200 == WhoisResponses \cup {"names"}

Messages(nicks) == [command : Responses200 \cup {"001"}, nick : nicks]
About(s, nick) == Only(s, Messages({nick}))

(* A server's answer to WHOIS; "names" is a reply nobody here looks for.   *)
WhoisAnswer(nick) ==
    <<[command |-> "user", nick |-> nick], [command |-> "server", nick |-> nick],
      [command |-> "end", nick |-> nick]>>

TestInit ==
    /\ sent = <<>> /\ responses = <<>> /\ traffic = <<>>
    /\ response_mode = FALSE /\ logged_in = FALSE
    /\ whois = [c \in Callers |-> NoWhois] /\ late = {} /\ asks = 0 /\ unasked = 0
    /\ spoiled = {}

(* main calls it once, when the message of the day is over.                *)
SetResponseMode ==
    /\ response_mode' = TRUE
    /\ UNCHANGED <<sent, responses, traffic, logged_in, whois, late, asks, unasked, spoiled>>

ServerSays ==
    /\ unasked < MaxUnasked /\ unasked' = unasked + 1
    /\ \E command \in {"001", "names"} :
          sent' = Append(sent, [command |-> command, nick |-> ""])
    /\ UNCHANGED <<responses, traffic, response_mode, logged_in, whois, late, asks, spoiled>>

(* async_whois and async_request up to the loop                            *)
AsyncWhois(c, nick) ==
    /\ whois[c] = NoWhois /\ asks < MaxWhois /\ asks' = asks + 1
    /\ whois' = [whois EXCEPT ![c] = [nick |-> nick, res |-> <<>>]]
    /\ sent' = sent \o WhoisAnswer(nick) /\ late' = late \ {c}
    /\ spoiled' = IF \E d \in Callers : whois[d].nick = nick THEN spoiled \cup {nick}
                  ELSE spoiled
    /\ UNCHANGED <<responses, traffic, response_mode, logged_in, unasked>>

(* async_queue, one line                                                   *)
AsyncQueue ==
    /\ sent # <<>> /\ sent' = Tail(sent)
    /\ IF response_mode /\ sent[1].command \in Responses200
         THEN responses' = Append(responses, sent[1]) /\ UNCHANGED <<traffic, spoiled>>
         ELSE /\ traffic' = Append(traffic, sent[1])
              /\ spoiled' = spoiled \cup ({sent[1].nick} \cap WhoisNicks)
              /\ UNCHANGED responses
    /\ UNCHANGED <<response_mode, logged_in, whois, late, asks, unasked>>

(* The sixty seconds are over, which is looked at when there is something  *)
(* to take.                                                                *)
EndPoint(c) ==
    /\ c \notin late /\ (c \in Callers => whois[c] # NoWhois) /\ late' = late \cup {c}
    /\ UNCHANGED <<sent, responses, traffic, response_mode, logged_in, whois, asks,
                   unasked, spoiled>>

\* a plausible mistake: all of the replies are taken
MutMine(nick) == [command : WhoisResponses, nick : WhoisNicks]

(* is_mine                                                                 *)
Mine(nick) == [command : WhoisResponses, nick : {nick}]

(* async_request, one turn of the loop with the lock held.                 *)
AsyncRequest(c) ==
    /\ whois[c] # NoWhois /\ c \notin late /\ responses # <<>>
    /\ LET mine == Mine(whois[c].nick)
           taken == whois[c].res \o Only(responses, mine)
           complete == \E i \in DOMAIN responses :
                          responses[i] \in mine /\ responses[i].command = "end"
       IN  /\ responses' = Only(responses, Messages(WhoisNicks \cup {""}) \ mine)
           /\ whois' = [whois EXCEPT ![c] = IF complete THEN NoWhois
                                            ELSE [@ EXCEPT !.res = taken]]
    /\ UNCHANGED <<sent, traffic, response_mode, logged_in, late, asks, unasked, spoiled>>

(* Too late: whatever else comes stays in responses.                       *)
RequestFails(c) ==
    /\ whois[c] # NoWhois /\ c \in late /\ responses # <<>>
    /\ whois' = [whois EXCEPT ![c] = NoWhois]
    /\ spoiled' = spoiled \cup {whois[c].nick}
    /\ UNCHANGED <<sent, responses, traffic, response_mode, logged_in, late, asks, unasked>>

AsyncGetTraffic ==
    /\ traffic # <<>>
    /\ IF "traffic" \in late THEN UNCHANGED <<traffic, logged_in>>
       ELSE /\ traffic' = Tail(traffic)
            /\ logged_in' = (logged_in \/ traffic[1].command = "001")
    /\ late' = late \ {"traffic"}
    /\ UNCHANGED <<sent, responses, response_mode, whois, asks, unasked, spoiled>>

TestNext ==
    \/ SetResponseMode \/ ServerSays \/ AsyncQueue \/ AsyncGetTraffic
    \/ \E c \in Callers : AsyncRequest(c) \/ RequestFails(c)
    \/ \E c \in Callers, nick \in WhoisNicks : AsyncWhois(c, nick)
    \/ \E c \in Callers \cup {"traffic"} : EndPoint(c)

TestSpec == TestInit /\ [][TestNext]_testVars
-----------------------------------------------------------------------------
(* Whoever asks about a nick alone, while response_mode is on, and after   *)
(* no request for it was in vain, gets all of the server's answer and only *)
(* that, in its order, whatever else arrives or is asked meanwhile.        *)
WhoisWhole ==
    \A c \in Callers :
        whois[c] # NoWhois /\ whois[c].nick \notin spoiled =>
            whois[c].res \o About(responses, whois[c].nick) \o About(sent, whois[c].nick)
                = WhoisAnswer(whois[c].nick)
=============================================================================
