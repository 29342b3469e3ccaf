--------------------------- MODULE MCTradePayment ---------------------------
(* Small instances of TradePayment for TLC. *)
EXTENDS TradePayment

CONSTANTS t1, t2, v1, v2

OneTrade  == {t1}
TwoTrades == {t1, t2}
OneWeb    == {v1}
TwoWebs   == {v1, v2}

\* The wallet's part and the channel's part of the payment.
Uneven == [t \in {t1, t2} |-> IF t = t1 THEN 1 ELSE 2]
Zero   == [t \in {t1, t2} |-> 0]
OneT   == [t \in {t1} |-> 1]
ZeroT  == [t \in {t1} |-> 0]

Apps      == {"wx", "alipay"}
WebPay    == {"alipay_wap"}
WalletToo == {"budget", "alipay"}
NoTrade   == {}
=============================================================================
