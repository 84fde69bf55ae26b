---------------------------- MODULE MCAiRequests ----------------------------
EXTENDS AiRequests

\* The second recording, and the episode, are longer than it was said.
MCClaimed == [ref \in Voices \cup {Episode} |-> 1]
MCReal == [ref \in Voices \cup {Episode} |-> IF ref = "v1" THEN 1 ELSE 2]
MCLimit == [c \in Chats |-> IF c = Sender THEN 3 ELSE 2]
=============================================================================
