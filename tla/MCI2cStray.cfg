CONSTANTS
  Dates = {d1, d2}
  Power = power
  Torn = torn
SPECIFICATION Spec
INVARIANTS NackEndsTransmission
