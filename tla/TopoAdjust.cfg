SPECIFICATION MCSpec
CONSTANTS
  a = a
  b = b
  c = c
  d = d
  va = va
  vc = vc
  vd = vd
  ac = ac
  ad = ad
  gb = gb
  hb = hb
  Device = {a, b, c, d}
  Viewer = {va, vc, vd}
  Guaji = {ac, ad, gb, hb}
  Owner <- MCOwner
  Level <- MCLevel
  Father <- MCFather
  NoGuaji = none
  NoViewer = none
  Items = 2
  Life = 1
INVARIANTS
  OrdersExclusive
  SwitchIsOfOrder
PROPERTIES
  SecondConnection
