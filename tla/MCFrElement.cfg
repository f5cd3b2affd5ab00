SPECIFICATION Spec
CONSTANT Primes <- SmallPrimes
INVARIANTS ArithmeticIsExact ComparisonsAreExact BitsAreExact ConversionsAreExact
