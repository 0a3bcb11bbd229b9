------------------------------ MODULE MCPipeline ------------------------------
(* The receiving chain for TLC: the device's worker (the source), the      *)
(* doubler, the null sink on its first output, and on its second a decoder *)
(* and the worker of ryfi::Receiver.  The filter and the demodulator in    *)
(* front of the doubler, the deframer and the second decoder behind it are *)
(* blocks like the decoder.  The transmitting chain is a part of this one: *)
(* a source, blocks like the decoder, and a sink.                          *)
EXTENDS Pipeline

CONSTANTS rxDevice, doubler, ns, decoder, worker,
          rxOut, outA, outB, decoderOut

RxBlocks == {rxDevice, doubler, ns, decoder, worker}
RxStreams == {rxOut, outA, outB, decoderOut}
RxInput == rxDevice :> NoStream @@ doubler :> rxOut @@ ns :> outA
           @@ decoder :> outB @@ worker :> decoderOut
RxOutputs == rxDevice :> <<rxOut>> @@ doubler :> <<outA, outB>> @@ ns :> <<>>
             @@ decoder :> <<decoderOut>> @@ worker :> <<>>
RxFlushFirst == {decoder}
=============================================================================
