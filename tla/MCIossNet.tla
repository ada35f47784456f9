----------------------------- MODULE MCIossNet -----------------------------
(* Values of the constants of IossNet for TLC. *)
EXTENDS IossNetPath

NoGates == {}

(* The gates of the channel operations. *)
ChannelGates == {"skip_request_channel", "skip_enable_channel"}

(* One RX channel with the IP filter and one TX channel, as r8125 has. *)
TwoChannels == 2
RxOfTwo == {1}

(* Two RX channels and one TX channel: a revert passes over more than one  *)
(* channel.                                                                *)
ThreeChannels == 3
RxOfThree == {1, 2}
============================================================================
