---------------------------- MODULE MCDesktopChat ----------------------------
(* Instances of the desktop chat, small enough for TLC.                    *)
EXTENDS DesktopChat

(* A command, an agent and a chat of a web page.                            *)
TheKinds == <<{"shell"}, {"agent"}, {"web"}>>

TheTexts == <<0, 1, 2>>
=============================================================================
