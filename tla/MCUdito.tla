------------------------------ MODULE MCUdito ------------------------------
(* TLC instance of Udito: no controller; one with a microphone jack behind *)
(* no router; an HDMI controller before and after the Realtek; both codecs *)
(* on one controller, with another whose registers are above 4 GB; a       *)
(* Realtek with nothing to hear before the codec that hears; one whose     *)
(* microphone is the ninth of its list; one whose first ADC is the widget  *)
(* after those searched.                                                   *)
EXTENDS Udito

LOCAL Src(t, i, m, n) == [tipo |-> t, input |-> i, mic |-> m, internal |-> n]
LOCAL Router(t) == Src(t, FALSE, FALSE, FALSE)
LOCAL Jack    == Src("pin", TRUE, TRUE, FALSE)
LOCAL Inner   == Src("pin", TRUE, TRUE, TRUE)
LOCAL LineIn  == Src("pin", TRUE, FALSE, TRUE)
LOCAL Speaker == Src("pin", FALSE, FALSE, TRUE)

LOCAL Adc(widget, list, behind) ==
  [group |-> 1, widget |-> widget, list |-> list, behind |-> behind]
LOCAL Hdmi  == [vendor |-> "hdmi", adcs |-> <<>>]
LOCAL Micro == [vendor |-> "hdmi", adcs |-> <<Adc(8, <<LineIn, Jack>>, <<>>)>>]
LOCAL Alc   == [vendor |-> REALTEK,
                adcs |-> <<Adc(8, <<Router("selector"), Router("mixer")>>,
                                  <<<<LineIn>>, <<Speaker, Jack, Inner>>>>)>>]
LOCAL Bare  == [vendor |-> REALTEK, adcs |-> <<Adc(8, <<Router("mixer")>>, <<<<Speaker>>>>)>>]
LOCAL Long  == [vendor |-> REALTEK,
                adcs |-> <<Adc(8, [i \in 1..9 |-> IF i = 2 THEN LineIn
                                                  ELSE IF i = 9 THEN Inner ELSE Deaf], <<>>)>>]
LOCAL Far   == [vendor |-> REALTEK,
                adcs |-> <<Adc(33, <<Inner>>, <<>>), [Adc(2, <<Jack>>, <<>>) EXCEPT !.group = 2]>>]

LOCAL One(c) == [bar |-> TRUE, codecs |-> [x \in {0} |-> c]]
LOCAL Above4G == [bar |-> FALSE, codecs |-> [x \in {0} |-> Alc]]
LOCAL Two(c, d) == [bar |-> TRUE, codecs |-> [x \in {0, 2} |-> IF x = 0 THEN c ELSE d]]

MCHardware == {<<>>, <<One(Micro)>>, <<One(Hdmi), One(Alc)>>, <<One(Alc), One(Hdmi)>>,
               <<Two(Hdmi, Alc), Above4G>>, <<Above4G, Two(Bare, Micro)>>,
               <<One(Long)>>, <<One(Far)>>}
=============================================================================
