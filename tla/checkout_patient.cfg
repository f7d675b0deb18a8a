SPECIFICATION PatientSpec
CONSTANTS
  User = {u1}
  Flight = {f1, f2}
  Class = {"Economy"}
  Price <- MCPrice
  Seat <- MCSeat
  FlightPrice <- MCFlightPrice
  Capacity <- MCCapacity
  MaxPages = 2
  MaxIdle = 1
  IntMax = 250
  None = None
INVARIANTS
  BookedAsPaid
  PaidInFull
  PaymentBuysOneBooking
PROPERTIES
  NotedPaymentIsBooked
  MailIsTrue
  PaidOrdersSpec
CHECK_DEADLOCK FALSE
