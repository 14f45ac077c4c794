------------------------------- MODULE MCMsrp -------------------------------
(***************************************************************************)
(* Instances of Msrp for TLC.                                              *)
(***************************************************************************)
EXTENDS Msrp, TLC

OneStream  == {"s"}
TwoStreams == {"s", "t"}

(* A stream may arrive with any attribute; of several, one as a talker and  *)
(* with listeners, and with listeners only another and that of identity     *)
(* zero.                                                                    *)
OfferOfOne    == OneStream \X Types
OffersAndZero ==
  {<<"s", "TALKER_ADVERTISE">>, <<"s", "LISTENER">>, <<"t", "LISTENER">>, <<"z", "LISTENER">>}

(* NULL or the first machine of the port; and memory that is no machine. *)
NullOrFirst == {NULL, 1}
AnyPointer  == NullOrFirst \cup {Elsewhere}

=============================================================================
