--------------------------- MODULE MCDeliveryStock ---------------------------
EXTENDS DeliveryStock

\* Two deliveries want the same device, the first one a second device as well;
\* a till sale wants that device and goods; there are goods for two of the three.
MCUnitsOf == [x \in Documents |->
  CASE x = "d1" -> {"u1", "u2"} [] x = "d2" -> {"u1"} [] x = "t1" -> {"u2"}
    [] OTHER -> {}]
MCQtyOf == [x \in Documents |-> IF x = "d1" THEN 2 ELSE 1]
=============================================================================
