----------------------------- MODULE MCEfviTcp -----------------------------
EXTENDS EfviTcp

Bytes(c, s) == [e \in End |-> IF e = "client" THEN c ELSE s]

MCISN == [e \in End |-> IF e = "client" THEN 10 ELSE 100]

CallbacksOf(est, more, data, remain, fin, timeout, room) ==
  [est : est, more : more, data : data, remain : remain, fin : fin,
   timeout : timeout, room : room]
None == {<<>>}
ConsumeAll == CallbacksOf(None, None, None, {0}, {<<>>, <<"fin">>}, None, {TRUE})
ConsumeSome == CallbacksOf(None, None, None, {0, 1}, {<<>>, <<"fin">>}, None, {TRUE})
KeepThree == CallbacksOf(None, None, None, {3}, None, None, {TRUE})
AnswerFin == CallbacksOf(None, None, None, {0}, {<<"fin">>}, None, {TRUE})
NoTimeWait == CallbacksOf(None, None, None, {0}, {<<"fin">>}, None, {FALSE})
CloseInData == CallbacksOf(None, None, {<<"close">>}, {0}, None, None, {TRUE})
SendAndClose == CallbacksOf({<<"send", "close">>}, None, None, {0}, None, None, {TRUE})
Reactive ==
  CallbacksOf({<<>>, <<"send">>}, {<<"send">>}, {<<>>, <<"send">>, <<"close">>}, {0},
              {<<>>, <<"fin">>, <<"close">>}, {<<"timer">>}, {TRUE, FALSE})

With(budget, ops, callbacks, delayed, tx_lag, nfaults, naccepts) ==
  [budget |-> budget, ops |-> ops, callbacks |-> callbacks, delayed |-> delayed, tx_lag |-> tx_lag,
   faults |-> nfaults, accepts |-> naccepts]

MCScenario ==
  [transfer  |-> With(Bytes(3, 0), {"send", "fin"}, ConsumeAll, FALSE, FALSE, 1, 1),
   window    |-> With(Bytes(5, 0), {"send"}, ConsumeSome, FALSE, FALSE, 1, 1),
   recovery  |-> With(Bytes(4, 0), {"send"}, ConsumeAll, FALSE, FALSE, 2, 1),
   finish    |-> With(Bytes(2, 0), {"send", "fin"}, ConsumeAll, FALSE, FALSE, 1, 1),
   reopen    |-> With(Bytes(1, 0), {"send", "fin", "close"}, ConsumeAll, FALSE, FALSE, 1, 2),
   buffered  |-> With(Bytes(2, 0), {"more", "sendv", "fin"}, AnswerFin, TRUE, TRUE, 0, 1),
   callbacks |-> With(Bytes(1, 1), {"send", "fin", "timer"}, Reactive, FALSE, FALSE, 0, 1),
   \* what the passing runs keep away from
   blocked_fin     |-> With(Bytes(6, 0), {"send", "fin"}, AnswerFin, FALSE, FALSE, 0, 1),
   small_window    |-> With(Bytes(5, 0), {"send"}, KeepThree, FALSE, FALSE, 0, 1),
   fin_after_more  |-> With(Bytes(1, 0), {"more", "fin"}, AnswerFin, FALSE, FALSE, 0, 1),
   more_then_close |-> With(Bytes(4, 0), {"send", "more", "fin"}, ConsumeAll, FALSE, FALSE, 0, 1),
   close_in_data   |-> With(Bytes(2, 0), {"send", "more", "fin"}, CloseInData, FALSE, FALSE, 0, 1),
   close_in_est    |-> With(Bytes(1, 1), {"send", "fin"}, SendAndClose, FALSE, FALSE, 0, 1),
   both_fin        |-> With(Bytes(0, 0), {"fin"}, ConsumeAll, FALSE, FALSE, 0, 1),
   full_tw         |-> With(Bytes(0, 0), {"fin"}, NoTimeWait, FALSE, FALSE, 1, 1),
   full_ring       |-> With(Bytes(6, 0), {"send", "fin"}, ConsumeAll, FALSE, FALSE, 0, 1),
   syn_as_data     |-> With(Bytes(4, 0), {"send", "fin"}, ConsumeAll, FALSE, FALSE, 2, 1)]
=============================================================================
