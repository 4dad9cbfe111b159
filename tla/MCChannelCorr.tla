--------------------------- MODULE MCChannelCorr ---------------------------
(* A small instance of ChannelCorr for TLC.                                *)
EXTENDS ChannelCorr

CONSTANT t1

MCChip == {0, 1}
MCPlain == {<<0, 42>>}

(* The registers of the correction, of both chips, and one more.           *)
MCReg == (MCChip \X {35, 38, 39}) \cup MCPlain
(* The bits of rx 2 and tx 2.                                              *)
MCValue == SUBSET {0, 3}
MCCoef == {{0}}
SendtoErrors == {"sendto"}

(* The switches begin all off or all on; coefficients are set for one port *)
(* of each chip, switches for all.                                         *)
MCInit == CorrInit /\ \A g \in Reg : regs[g] \in {{}, {0, 3}}

MCCoefPorts == {<<0, "rx", 2>>, <<1, "tx", 2>>, <<0, "tx", 1>>}

MCNext ==
  /\ CorrNext
  /\ \A t \in Thread :
       args'[t].op = "coef" => <<args'[t].rf, args'[t].dir, args'[t].ch>> \in MCCoefPorts

MCSpec == MCInit /\ [][MCNext]_<<api, vars>> /\ CorrFairness
=============================================================================
