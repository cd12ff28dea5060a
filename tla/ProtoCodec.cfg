SPECIFICATION Spec
CONSTANTS
  Letters = {5}
  Numbers = {0, 3}
  Classes = {"PhoneNumber", "Person", "ContactBook", "CompanyInfo", "PetProto", "contacts", "person"}
  ExtraTags = {16, 34}
  MaxBytes = 9
INVARIANT RoundTrip
INVARIANT MergeIsConcat
