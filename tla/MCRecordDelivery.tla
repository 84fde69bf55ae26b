-------------------------- MODULE MCRecordDelivery --------------------------
(* One episode of a podcast for a listener and for a channel the same listener *)
(* has connected; the listener's tariff has two notifications left.            *)
EXTENDS RecordDelivery

CONSTANTS user, channel

MCJobUser == [j \in Jobs |-> "c1"]
MCJobAction == [j \in Jobs |-> "circle"]
MCRecipients == [j \in Jobs |-> Chats]
MCBilled == [c \in Chats |-> user]
MCQuota == [c \in Chats |-> IF c = user THEN 2 ELSE 0]
=============================================================================
