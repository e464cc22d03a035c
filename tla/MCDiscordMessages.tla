------------------------- MODULE MCDiscordMessages -------------------------
(* Instances of DiscordMessages for TLC.                                   *)
EXTENDS DiscordMessages

CONSTANTS ann, bob, g1, ch1, ch2

Post(id, author, guild, channel) ==
    [id |-> id, author |-> author, bot |-> FALSE, mentioned |-> TRUE,
     guild |-> guild, channel |-> channel, thread |-> None]

\* Two messages of one author, and two of one channel of a guild.
Posts == {Post(1, ann, None, ch1), Post(2, ann, g1, ch2), Post(3, bob, g1, ch2)}

\* Those of the first author.
OwnPosts == {m \in Posts : m.author = ann}

\* The limits without the agent, one of which leaves a window half full, and
\* the agent without limits.
TwoConfigs ==
    {[user |-> 2, guild |-> 1, agent |-> FALSE, events |-> 3, stops |-> FALSE],
     [user |-> 0, guild |-> 0, agent |-> TRUE, events |-> 2, stops |-> TRUE]}

\* The limits alone, and more events.
LimitConfigs ==
    {[user |-> 2, guild |-> 1, agent |-> FALSE, events |-> 4, stops |-> FALSE]}
=============================================================================
