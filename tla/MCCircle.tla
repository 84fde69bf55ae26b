------------------------------ MODULE MCCircle ------------------------------
EXTENDS Circle

\* Podcast 1 publishes nothing, podcast 2 everything.
MCNews == [p \in Podcasts |-> IF p = 1 THEN 0 ELSE MaxEp]
\* Person 1 has no limits, person 2 one notification left.
MCLeft0 == [u \in Users |-> IF u = 2 THEN 1 ELSE -1]
MCOwner == [t \in TgChats |-> 2]

\* Person 1 follows both podcasts; 2 has turned his own messages off, and reposts the
\* second podcast to his two Telegram channels.
MCSubs == {<<1, 1>>, <<1, 2>>}
MCPosts == TgChats \X {2}

\* Both follow, and the second podcast goes to a Telegram channel of 2 too.
MCSubsLive == {<<1, 1>>, <<1, 2>>, <<2, 2>>}

\* One podcast and one person without limits.
MCNobody == << >>
MCAllSubs == Users \X Podcasts
MCAllLeft == [u \in Users |-> -1]
MCAllNews == [p \in Podcasts |-> MaxEp]
=============================================================================
