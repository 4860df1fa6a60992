------------------------------- MODULE Orders -------------------------------
(***************************************************************************)
(* The orders the bot sends (BaseIrcServer in IrcServer.cpp), as messages  *)
(* of Message.tla without a prefix.  A text is the sequence of its words;  *)
(* text with a colon goes last, what has none is one word per parameter.   *)
(***************************************************************************)
EXTENDS Message

Us == [name |-> <<>>, user |-> <<>>, host |-> <<>>]
Order(command, middles, text) ==
    [from |-> Us, command |-> command, middles |-> middles, mark |-> TRUE,
     text |-> text]
Words(texts) == [i \in DOMAIN texts |-> Word(texts[i])]

(* join(begin, end, ",")                                                   *)
Commas(names) ==
    FoldLeft(LAMBDA s, x : IF s = Blank THEN x ELSE s \o "," \o x, Blank, names)

PassOrder(pwd) ==
    Order("PASS", Words(<<IF pwd = Blank THEN "none" ELSE pwd>>), <<>>)
NickOrder(n) == Order("NICK", Words(<<n>>), <<>>)
UserOrder(u, m, r) == Order("USER", Words(<<u, m, "*">>), r)

(* A channel without a key leaves a space at the end of the line.          *)
JoinOrder(channel, key) == Order("JOIN", Words(<<channel, key>>), <<>>)

(* No colon: a message of several words is as many parameters.             *)
PartOrder(channel, message) == Order("PART", Words(<<channel>>) \o message, <<>>)
QuitOrder(reason) == Order("QUIT", <<>>, reason)
PingOrder(info) == Order("PING", Words(<<info>>), <<>>)
PongOrder(info) == Order("PONG", Words(<<info>>), <<>>)
WhoisOrder(masks) == Order("WHOIS", Words(<<Commas(masks)>>), <<>>)
KickOrder(chans, users, comment) ==
    Order("KICK", Words(<<Commas(chans), Commas(users)>>), comment)
AuthOrder(user, pass) == Order("AUTH", Words(<<user, pass>>), <<>>)
QueryOrder(n) == Order("QUERY", Words(<<n>>), <<>>)
ModeOrder(chan, mode, n) == Order("MODE", Words(<<chan, mode, n>>), <<>>)
UserModeOrder(n, mode) == Order("MODE", Words(<<n, mode>>), <<>>)

Say(to, text) == Order("PRIVMSG", <<to>>, text)
Notice(to, text) == Order("NOTICE", <<to>>, text)

(* \001 in front of the first word and behind the last one.                *)
Quoted(text) ==
    LET opened == [text EXCEPT ![1].text = "\\001" \o @]
    IN  [opened EXCEPT ![Len(text)].text = @ \o "\\001"]
Ctcp(to, text) == Say(to, Quoted(text))
Me(to, text) == Say(to, Quoted(<<Word("ACTION")>> \o text))

(* reply and reply_notice: to the channel, or to the prefix up to its "!"; *)
(* reply_pm and reply_pm_notice: to get_nick().                            *)
ReplyName(m) ==
    IF To(m) # <<>> /\ Start(To(m)) \in HashChannels THEN To(m)[1].text
    ELSE IF Find(m.prefix, "!") # 0 THEN m.prefix[1] ELSE Commas(m.prefix)
Reply(m, text) == Say(Word(ReplyName(m)), text)
ReplyNotice(m, text) == Notice(Word(ReplyName(m)), text)
ReplyPm(m, text) == Say(Word(NickName(m)[1]), text)
ReplyPmNotice(m, text) == Notice(Word(NickName(m)[1]), text)

(* A message of somebody's is answered in one of the four ways, sooner or  *)
(* later (fc_reply and the others: the order of replies is in              *)
(* FloodController.tla).                                                   *)
Answer(text) ==
    /\ msg # NoMessage /\ msg.command = "PRIVMSG" /\ NickName(msg) # <<>>
    /\ said' \in {Reply(msg, text), ReplyNotice(msg, text), ReplyPm(msg, text),
                  ReplyPmNotice(msg, text)}
    /\ msg' = NoMessage

(* exec: what the commands of the console send, with a word and a text     *)
(* typed after them.  /raw (the text is the line) and the answers to the   *)
(* console are left out.                                                   *)
ConsoleOrder(cmd, to, text) ==
    CASE cmd = "/say" -> Say(Word(to), text)
      [] cmd = "/ctcp" -> Ctcp(Word(to), text)
      [] cmd = "/nick" -> NickOrder(to)

TypedOrder(cmd, to, text) ==
    CASE cmd = "/msg" -> Say(Word(to), text)
      [] cmd = "/auth" -> AuthOrder(to, text[1].text)
      [] cmd = "/mode" -> UserModeOrder(to, text[1].text)
      [] cmd = "/whois" -> WhoisOrder(<<to>>)
      [] cmd = "/me" /\ to \in HashChannels -> Me(Word(to), text)
      [] cmd = "/join" /\ to \in HashChannels -> JoinOrder(to, text[1].text)
      [] cmd = "/part" /\ to \in HashChannels -> PartOrder(to, Trim(text))
      [] cmd = "/ping" -> PingOrder(to)
=============================================================================
