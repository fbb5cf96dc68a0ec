--------------------------- MODULE MCChatSession ---------------------------
(* Instances of ChatSession for TLC.                                       *)
EXTENDS ChatSession, TLC

CONSTANTS a, b, p, x

\* HTTP runs a and b, and p of a chat platform.
KindOfThree == a :> "api" @@ b :> "api" @@ p :> "platform"
KindOfTwo   == a :> "api" @@ p :> "platform"
=============================================================================
