------------------------------ MODULE MCStores ------------------------------
(* The stores, each checked by itself: part says which one this behaviour   *)
(* is about, the others keep one state.  Texts are built from the           *)
(* characters that escape() treats and the digits it writes.                *)
EXTENDS BackupStore, BotDb, Props, StoreText

VARIABLE part

MCStoreKeys == 1 .. 2
MCDbKeys == 1 .. 2
MCChars == {"\\", "{", "}", ",", "0", "1"}
MCMapTexts == UNION {[1 .. n -> MCChars] : n \in 0 .. 1}
MCListTexts == UNION {[1 .. n -> MCChars] : n \in 0 .. 2}

NoStore == StoreInit /\ disk = [k \in StoreKeys |-> <<>>]
NoDb == DbInit /\ files = NoData

Init ==
    \/ part = "store" /\ StoreInit /\ NoDb /\ PropInit /\ item = Nobody
    \/ part = "botdb" /\ NoStore /\ DbInit /\ PropInit /\ item = Nobody
    \/ part = "props" /\ NoStore /\ NoDb /\ PropInit /\ item = Nobody
    \/ part = "text" /\ NoStore /\ NoDb /\ PropInit /\ TextInit

Next ==
    /\ UNCHANGED part
    /\ \/ part = "store" /\ StoreNext /\ UNCHANGED <<dbVars, propVars, item>>
       \/ part = "botdb" /\ DbNext /\ UNCHANGED <<storeVars, propVars, item>>
       \/ part = "props" /\ PropNext /\ UNCHANGED <<storeVars, dbVars, item>>
       \/ part = "text" /\ ReadBack /\ UNCHANGED <<storeVars, dbVars, propVars>>

Spec == Init /\ [][Next]_<<storeVars, dbVars, propVars, item, part>>
=============================================================================
